---- MODULE Spec2Model ----
(***************************************************************************)
(* Model of the extraction engine of src/app.py: the structured goal-sheet *)
(* extractor read_xlsx_sheet_metas with its text normalizers and the       *)
(* static category table.                                                  *)
(*                                                                         *)
(* Texts.  A Python str is a sequence of characters and a character is a   *)
(* one-character string.  The characters outside ASCII that the program's  *)
(* table and sheets use are written as ASCII digraphs: "a'" "e'" "i'" "o'" *)
(* "u'" and their capitals are the acute-accented vowels, "u:" and "U:"    *)
(* the u with diaeresis, "n~" and "N~" the n with tilde, and "ndash" the   *)
(* en dash U+2013, which has no decomposition.                             *)
(*                                                                         *)
(* Cells.  A cell value is [t |-> type, v |-> value] with t one of "None", *)
(* "str" (v a text), "int", "float" (v the whole number it holds) and      *)
(* "bool" (v 0 or 1).                                                      *)
(***************************************************************************)
EXTENDS Integers, Sequences, FiniteSets, TLC

VARIABLES
    sheetnames,        \* wb.sheetnames of the workbook at file_path
    sheet_name,        \* the sheet_name argument
    ws,                \* rows of wb[sheet_name]; ws[r] is row r (1-indexed)
    pc,                \* position in read_xlsx_sheet_metas
    wb_open,           \* the workbook handle is open
    row_num,           \* loop variable of the header scan
    header_row_num,    \* 0 stands for None
    fila_categorias,
    fila_encabezados,
    is_regional,
    columnas_cupos,
    data_row,          \* number of the next row ws.iter_rows yields
    resultados,
    origen,            \* origen[k]: number of the row resultados[k] was built from
    raised,            \* the exception that left the call, "none" if none
    returned,          \* the value returned to the caller, NoResult if none
    \* get_sheet_names and read_xlsb_sheet
    sheets,            \* wb.sheets of the .xlsb workbook
    exclude_sql,       \* the exclude_sql argument
    names,             \* the list get_sheet_names returned, NoResult if none
    rows,              \* list(sheet.rows()): rows[r] is the list of cell values
    xpc,               \* position in get_sheet_names / read_xlsb_sheet
    headers,
    row_i,             \* number of the row the data loop is at
    data,
    data_origen,       \* data_origen[k]: number of the row data[k] was built from
    \* the file-kind classifiers and the two normalizers
    entrada,           \* the text given (a cell: a str, or None)
    tpc,               \* which of the functions have been applied to entrada
    es_metas,          \* is_metas_file(entrada)
    es_fpi,            \* is_ejecucion_fpi_file(entrada)
    norm1,             \* normalizar_texto(entrada)
    norm2,             \* normalizar_texto(norm1)
    col1,              \* normalize_collection_name(entrada)
    col2,              \* normalize_collection_name(col1)
    \* the upload endpoints and the MongoDB database
    db,                \* database sena_metas: collection name -> set of documents
    oplog,             \* the writes to db of the last request received, in order
    peticiones,        \* number of requests received so far
    reloj,             \* datetime.now(), in whole seconds
    uploaded_files,    \* the registry: file_id -> entry
    disco,             \* the files in UPLOAD_DIR: file_id -> the file stored
    archivo,           \* the file of the request under way
    file_id,
    hpc,               \* position in the handler under way, "idle" if none
    hojas,             \* the sheet names the handler goes through
    sheet_k,           \* position in hojas
    mongodb_collections,
    respuesta,         \* the response to the last request answered
    abiertos,          \* the file_ids of the files a workbook was left open on
    pedido,            \* the parameters of the read or delete request received last
    salida,            \* the files in OUTPUT_DIR: filename -> its content
    \* the pagination of get_sheet_data
    extraidos,         \* the list read_xlsb_sheet returned
    limit,             \* the limit parameter (an int, or None)
    offset,            \* the offset parameter
    ppc,               \* position in the pagination
    total,
    pagina             \* data after the pagination

vars_metas == <<sheetnames, sheet_name, ws, pc, wb_open, row_num, header_row_num,
                fila_categorias, fila_encabezados, is_regional, columnas_cupos,
                data_row, resultados, origen, raised, returned>>
vars_xlsb == <<sheets, exclude_sql, names, rows, xpc, headers, row_i, data, data_origen>>
vars_texto == <<entrada, tpc, es_metas, es_fpi, norm1, norm2, col1, col2>>
vars_sync == <<db, oplog, peticiones, reloj, uploaded_files, disco, archivo, file_id,
               hpc, hojas, sheet_k, mongodb_collections, respuesta, abiertos,
               pedido, salida>>
vars_pag == <<extraidos, limit, offset, ppc, total, pagina>>
vars == <<vars_metas, vars_xlsb, vars_texto, vars_sync, vars_pag>>
\* the variables an operation of one function leaves alone
fuera_de_metas == <<vars_xlsb, vars_texto, vars_sync, vars_pag>>
fuera_de_xlsb == <<vars_metas, vars_texto, vars_sync, vars_pag>>
fuera_de_texto == <<vars_metas, vars_xlsb, vars_sync, vars_pag>>
fuera_de_sync == <<vars_metas, vars_xlsb, vars_texto, vars_pag>>
fuera_de_pag == <<vars_metas, vars_xlsb, vars_texto, vars_sync>>

-----------------------------------------------------------------------------
\* Bounds of the model

\* most data rows after the header row
MaxDataRows == 2
\* highest row number a header row is placed at
MaxHeaderPos == 21

-----------------------------------------------------------------------------
\* Characters and texts

UPPER == <<"A","B","C","D","E","F","G","H","I","J","K","L","M",
           "N","O","P","Q","R","S","T","U","V","W","X","Y","Z">>
LOWER == <<"a","b","c","d","e","f","g","h","i","j","k","l","m",
           "n","o","p","q","r","s","t","u","v","w","x","y","z">>
DIGITS == <<"0","1","2","3","4","5","6","7","8","9">>
PUNCT == {" ", "-", "(", ")", "=", ".", "/", "_", "%", ",", ":"}
ACCENTED == <<"a'","e'","i'","o'","u'","u:","n~">>
ACCENTED_UPPER == <<"A'","E'","I'","O'","U'","U:","N~">>
\* the base letter NFKD decomposes each accented letter to
BASE == <<"a","e","i","o","u","u","n">>
BASE_UPPER == <<"A","E","I","O","U","U","N">>
WHITESPACE == {" "}

Range(s) == {s[i] : i \in 1..Len(s)}
Pos(c, s) == CHOOSE i \in 1..Len(s) : s[i] = c
UPPER_SET == Range(UPPER)
LOWER_SET == Range(LOWER)
ACCENTED_SET == Range(ACCENTED)
ACCENTED_UPPER_SET == Range(ACCENTED_UPPER)
\* the characters of [a-z0-9]
ALNUM == Range(LOWER) \cup Range(DIGITS)
ASCII == Range(UPPER) \cup Range(LOWER) \cup Range(DIGITS) \cup PUNCT

\* str.lower() / str.upper() of one character
lower_char(c) ==
    IF c \in UPPER_SET THEN LOWER[Pos(c, UPPER)]
    ELSE IF c \in ACCENTED_UPPER_SET THEN ACCENTED[Pos(c, ACCENTED_UPPER)]
    ELSE c
upper_char(c) ==
    IF c \in LOWER_SET THEN UPPER[Pos(c, LOWER)]
    ELSE IF c \in ACCENTED_SET THEN ACCENTED_UPPER[Pos(c, ACCENTED)]
    ELSE c
lower(s) == [i \in 1..Len(s) |-> lower_char(s[i])]
upper(s) == [i \in 1..Len(s) |-> upper_char(s[i])]

\* unicodedata.normalize('NFKD', c).encode('ASCII', 'ignore') of one character:
\* an accented letter decomposes to its base letter and a combining mark, the
\* mark and every other character outside ASCII are dropped
nfkd_ascii_char(c) ==
    IF c \in ASCII THEN <<c>>
    ELSE IF c \in ACCENTED_SET THEN <<BASE[Pos(c, ACCENTED)]>>
    ELSE IF c \in ACCENTED_UPPER_SET THEN <<BASE_UPPER[Pos(c, ACCENTED_UPPER)]>>
    ELSE <<>>
RECURSIVE nfkd_ascii_from(_, _)
nfkd_ascii_from(s, i) ==
    IF i > Len(s) THEN <<>>
    ELSE nfkd_ascii_char(s[i]) \o nfkd_ascii_from(s, i + 1)
nfkd_ascii(s) == nfkd_ascii_from(s, 1)

\* str.strip(chars)
strip_chars(s, chars) ==
    LET keep == {i \in 1..Len(s) : s[i] \notin chars}
    IN IF keep = {} THEN <<>>
       ELSE SubSeq(s, CHOOSE i \in keep : \A j \in keep : i <= j,
                      CHOOSE i \in keep : \A j \in keep : j <= i)
strip(s) == strip_chars(s, WHITESPACE)

\* needle in hay
Contains(needle, hay) ==
    \E i \in 0..(Len(hay) - Len(needle)) :
        SubSeq(hay, i + 1, i + Len(needle)) = needle

\* re.sub(r'[^a-z0-9]', '_', s)
sub_special(s) ==
    [i \in 1..Len(s) |->
        IF s[i] \in ALNUM THEN s[i] ELSE "_"]
\* re.sub(r'_+', '_', s)
RECURSIVE sub_repeat_from(_, _)
sub_repeat_from(s, i) ==
    IF i > Len(s) THEN <<>>
    ELSE (IF s[i] = "_" /\ i > 1 /\ s[i - 1] = "_" THEN <<>> ELSE <<s[i]>>)
         \o sub_repeat_from(s, i + 1)
sub_repeat(s) == sub_repeat_from(s, 1)

\* normalize_collection_name without the collapse of repeated underscores
normalize_collection_name_sin_colapsar(s) ==
    strip_chars(sub_special(lower(nfkd_ascii(s))), {"_"})

normalize_collection_name(s) ==
    strip_chars(sub_repeat(sub_special(lower(nfkd_ascii(s)))), {"_"})

\* normalizar_texto trimming before the characters outside ASCII are dropped
normalizar_texto_recorta_antes(texto) ==
    IF texto = <<>> THEN <<>>
    ELSE lower(nfkd_ascii(strip(texto)))

\* normalizar_texto without the removal of accents
normalizar_texto_con_tildes(texto) ==
    IF texto = <<>> THEN <<>>
    ELSE strip(lower(texto))

normalizar_texto(texto) ==
    IF texto = <<>> THEN <<>>
    ELSE strip(lower(nfkd_ascii(texto)))

-----------------------------------------------------------------------------
\* Cell values

None == [t |-> "None", v |-> 0]
StrCell(s) == [t |-> "str", v |-> s]
IntCell(n) == [t |-> "int", v |-> n]
FloatCell(n) == [t |-> "float", v |-> n]

\* bool(value): the truth value Python gives a cell
Truthy(c) ==
    CASE c.t = "None" -> FALSE
      [] c.t = "str" -> c.v # <<>>
      [] OTHER -> c.v # 0

RECURSIVE decimal(_)
decimal(n) ==
    IF n < 10 THEN <<DIGITS[n + 1]>>
    ELSE decimal(n \div 10) \o <<DIGITS[(n % 10) + 1]>>

\* str(value)
py_str(c) ==
    CASE c.t = "None" -> <<"N","o","n","e">>
      [] c.t = "str" -> c.v
      [] c.t = "int" -> decimal(c.v)
      [] c.t = "float" -> decimal(c.v) \o <<".","0">>
      [] c.t = "bool" -> IF c.v = 0 THEN <<"F","a","l","s","e">>
                         ELSE <<"T","r","u","e">>

-----------------------------------------------------------------------------
\* The static category table, in its iteration order (app.py:223-257)

mapeo_nombres == <<
    \* app.py:224
    [clave |-> <<"T","e","c","n","o'","l","o","g","o","s"," ","R","e","g","u","l","a","r"," ","-"," ","P","r","e","s","e","n","c","i","a","l">>,
     campo |-> <<"M","_","T","E","C","_","R","E","G","_","P","R","E">>],
    \* app.py:225
    [clave |-> <<"T","e","c","n","o'","l","o","g","o","s"," ","R","e","g","u","l","a","r"," ","-"," ","V","i","r","t","u","a","l">>,
     campo |-> <<"M","_","T","E","C","_","R","E","G","_","V","I","R">>],
    \* app.py:226
    [clave |-> <<"T","e","c","n","o'","l","o","g","o","s"," ","R","e","g","u","l","a","r"," ","-"," ","A"," ","D","i","s","t","a","n","c","i","a">>,
     campo |-> <<"M","_","T","E","C","_","R","E","G","_","A","_","D">>],
    \* app.py:227
    [clave |-> <<"T","e","c","n","o'","l","o","g","o","s"," ","C","a","m","p","e","S","E","N","A">>,
     campo |-> <<"M","_","T","E","C","_","C","A","M","P","E","S","E">>],
    \* app.py:228
    [clave |-> <<"T","e","c","n","o'","l","o","g","o","s"," ","F","u","l","l"," ","P","o","p","u","l","a","r">>,
     campo |-> <<"M","_","T","E","C","_","F","U","L","L","_","P","O">>],
    \* app.py:229
    [clave |-> <<"S","u","b","T","o","t","a","l"," ","T","e","c","n","o'","l","o","g","o","s"," ","(","E",")">>,
     campo |-> <<"M","_","T","E","C","N","O","L","O","G","O","S">>],
    \* app.py:230
    [clave |-> <<"E","D","U","C","A","C","I","O","N"," ","S","U","P","E","R","I","O","R"," ","(","=","E",")">>,
     campo |-> <<"M","_","E","D","U","_","S","U","P","E","R","I","O">>],
    \* app.py:231
    [clave |-> <<"O","p","e","r","a","r","i","o","s"," ","R","e","g","u","l","a","r">>,
     campo |-> <<"M","_","O","P","E","_","R","E","G","U","L","A","R">>],
    \* app.py:232
    [clave |-> <<"O","p","e","r","a","r","i","o","s"," ","C","a","m","p","e","S","E","N","A">>,
     campo |-> <<"M","_","O","P","E","_","C","A","M","P","E","S","E">>],
    \* app.py:233
    [clave |-> <<"O","p","e","r","a","r","i","o","s"," ","F","u","l","l"," ","P","o","p","u","l","a","r">>,
     campo |-> <<"M","_","O","P","E","_","F","U","L","L","_","P","O">>],
    \* app.py:234
    [clave |-> <<"S","u","b","T","o","t","a","l"," ","O","p","e","r","a","r","i","o","s"," ","(","B",")">>,
     campo |-> <<"M","_","S","U","B","_","T","O","T","_","O","P","E">>],
    \* app.py:235
    [clave |-> <<"A","u","x","i","l","i","a","r","e","s"," ","R","e","g","u","l","a","r">>,
     campo |-> <<"M","_","A","U","X","_","R","E","G","U","L","A","R">>],
    \* app.py:236
    [clave |-> <<"A","u","x","i","l","i","a","r","e","s"," ","C","a","m","p","e","S","E","N","A">>,
     campo |-> <<"M","_","A","U","X","_","C","A","M","P","E","S","E">>],
    \* app.py:237
    [clave |-> <<"A","u","x","i","l","i","a","r","e","s"," ","F","u","l","l"," ","P","o","p","u","l","a","r">>,
     campo |-> <<"M","_","A","U","X","_","F","U","L","L","_","P","O">>],
    \* app.py:238
    [clave |-> <<"S","u","b","T","o","t","a","l"," ","A","u","x","i","l","i","a","r","e","s"," ","(","A",")">>,
     campo |-> <<"M","_","S","U","B","_","T","O","T","_","A","U","X">>],
    \* app.py:239
    [clave |-> <<"T","e'","c","n","i","c","o"," ","L","a","b","o","r","a","l"," ","R","e","g","u","l","a","r"," ","-"," ","P","r","e","s","e","n","c","i","a","l">>,
     campo |-> <<"M","_","T","C","O","_","R","E","G","_","P","R","E">>],
    \* app.py:240
    [clave |-> <<"T","e'","c","n","i","c","o"," ","L","a","b","o","r","a","l"," ","R","e","g","u","l","a","r"," ","-"," ","V","i","r","t","u","a","l">>,
     campo |-> <<"M","_","T","C","O","_","R","E","G","_","V","I","R">>],
    \* app.py:241
    [clave |-> <<"T","e'","c","n","i","c","o"," ","L","a","b","o","r","a","l"," ","C","a","m","p","e","S","E","N","A">>,
     campo |-> <<"M","_","T","C","O","_","C","A","M","P","E","S","E">>],
    \* app.py:242
    [clave |-> <<"T","e'","c","n","i","c","o"," ","L","a","b","o","r","a","l"," ","F","u","l","l"," ","P","o","p","u","l","a","r">>,
     campo |-> <<"M","_","T","C","O","_","F","U","L","L","_","P","O">>],
    \* app.py:243
    [clave |-> <<"T","e'","c","n","i","c","o"," ","L","a","b","o","r","a","l"," ","A","r","t","i","c","u","l","a","c","i","o'","n"," ","c","o","n"," ","l","a"," ","M","e","d","i","a">>,
     campo |-> <<"M","_","T","C","O","_","A","R","T","_","M","E","D">>],
    \* app.py:244
    [clave |-> <<"S","u","b","T","o","t","a","l"," ","T","e'","c","n","i","c","o"," ","L","a","b","o","r","a","l"," ","(","C",")">>,
     campo |-> <<"M","_","S","U","B","_","T","C","O","_","L","A","B">>],
    \* app.py:245
    [clave |-> <<"P","r","o","f","e","s","i","o","n","a","l"," ","T","e'","c","n","i","c","o"," ","(","T",")">>,
     campo |-> <<"M","_","P","R","O","F","_","T","E","C","N","I","C">>],
    \* app.py:246
    [clave |-> <<"T","O","T","A","L"," ","F","O","R","M","A","C","I","O'","N"," ","L","A","B","O","R","A","L">>,
     campo |-> <<"M","_","T","O","T","_","F","O","R","_","L","A","B">>],
    \* app.py:247
    [clave |-> <<"T","O","T","A","L"," ","F","O","R","M","A","C","I","O","N"," ","T","I","T","U","L","A","D","A">>,
     campo |-> <<"M","_","T","O","T","_","F","O","R","_","T","I","T">>],
    \* app.py:248
    [clave |-> <<"C","o","m","p","l","e","m","e","n","t","a","r","i","a"," ","V","i","r","t","u","a","l"," ","S","i","n"," ","B","i","l","i","n","g","u:","i","s","m","o">>,
     campo |-> <<"M","_","C","O","M","_","V","I","R","_","S","B","I">>],
    \* app.py:249
    [clave |-> <<"C","o","m","p","l","e","m","e","n","t","a","r","i","a"," ","P","r","e","s","e","n","c","i","a","l"," ","S","i","n"," ","B","i","l","i","n","g","u:","i","s","m","o">>,
     campo |-> <<"M","_","C","O","M","_","P","R","E","_","S","B","I">>],
    \* app.py:250
    [clave |-> <<"C","o","m","p","l","e","m","e","n","t","a","r","i","a"," ","B","i","l","i","n","g","u:","i","s","m","o"," ","V","i","r","t","u","a","l">>,
     campo |-> <<"M","_","C","O","M","_","B","I","L","_","V","I","R">>],
    \* app.py:251
    [clave |-> <<"C","o","m","p","l","e","m","e","n","t","a","r","i","a"," ","B","i","l","i","n","g","u:","i","s","m","o"," ","P","r","e","s","e","n","c","i","a","l">>,
     campo |-> <<"M","_","C","O","M","_","B","I","L","_","P","R","E">>],
    \* app.py:252
    [clave |-> <<"S","u","b","T","o","t","a","l"," ","P","r","o","g","r","a","m","a","s"," ","B","i","l","i","n","g","u:","e","s">>,
     campo |-> <<"M","_","S","U","B","_","P","R","O","_","B","I","N">>],
    \* app.py:253
    [clave |-> <<"C","o","m","p","l","e","m","e","n","t","a","r","i","a"," ","C","a","m","p","e","S","E","N","A">>,
     campo |-> <<"M","_","C","O","M","_","C","A","M","P","E","S","E">>],
    \* app.py:254
    [clave |-> <<"C","o","m","p","l","e","m","e","n","t","a","r","i","a"," ","F","u","l","l"," ","P","o","p","u","l","a","r">>,
     campo |-> <<"M","_","C","O","M","_","F","U","L","L","_","P","O">>],
    \* app.py:255
    [clave |-> <<"T","O","T","A","L"," ","C","O","M","P","L","E","M","E","N","T","A","R","I","A">>,
     campo |-> <<"M","_","T","O","T","_","C","O","M","P","L","E","M">>],
    \* app.py:256
    [clave |-> <<"T","O","T","A","L"," ","F","O","R","M","A","C","I","O'","N"," ","P","R","O","F","E","S","I","O","N","A","L">>,
     campo |-> <<"M","_","T","O","T","_","P","R","O","F","_","I","N">>]
>>

-----------------------------------------------------------------------------
\* read_xlsx_sheet_metas: constants and the helpers of its steps

K_PERIODO == <<"P","E","R","I","O","D","O">>
K_COD_REGIONAL == <<"C","O","D","_","R","E","G","I","O","N","A","L">>
K_REGIONAL == <<"R","E","G","I","O","N","A","L">>
K_COD_CENTRO == <<"C","O","D","_","C","E","N","T","R","O">>
K_CENTRO == <<"C","E","N","T","R","O">>
PERIODO_2025 == <<"2","0","2","5">>
CUPOS == <<"C","u","p","o","s">>

\* range(1, 20): the scan stops before this row number
SCAN_STOP == 20

NoResult == <<"no result">>
NoCampo == <<>>
NoCol == -1

\* 'Cupos' in str(cell) if cell else False
cell_has_cupos(cell) == IF Truthy(cell) THEN Contains(CUPOS, py_str(cell)) ELSE FALSE
\* any(... for cell in row_data)
row_has_cupos(row_data) == \E i \in 1..Len(row_data) : cell_has_cupos(row_data[i])

\* the row number ws.iter_rows(min_row=n, max_row=n) starts at: min_row or 1
iter_min_row(n) == IF n = 0 THEN 1 ELSE n

\* the sheet-kind test without .upper()
sheet_is_regional_exacto(name) == Contains(K_REGIONAL, name)

\* 'REGIONAL' in sheet_name.upper()
sheet_is_regional(name) == Contains(K_REGIONAL, upper(name))

col_cod_reg == 0
col_regional == 1
\* col_cod_centro pointing at the centre's name column
col_cod_centro_mal(regional) == IF regional THEN NoCol ELSE 3
col_cod_centro(regional) == IF regional THEN NoCol ELSE 2
col_centro(regional) == IF regional THEN NoCol ELSE 3

\* nombre_original_normalizado of each entry of the table
claves_normalizadas ==
    [k \in 1..Len(mapeo_nombres) |-> normalizar_texto(mapeo_nombres[k].clave)]

\* the for/break over mapeo_nombres.items(), from entry k on
RECURSIVE buscar_desde(_, _)
buscar_desde(categoria_normalizada, k) ==
    IF k > Len(mapeo_nombres) THEN NoCampo
    ELSE IF Contains(claves_normalizadas[k], categoria_normalizada)
         THEN mapeo_nombres[k].campo
         ELSE buscar_desde(categoria_normalizada, k + 1)
\* the lookup without its break: the last matching entry wins
RECURSIVE buscar_ultimo_desde(_, _)
buscar_ultimo_desde(categoria_normalizada, k) ==
    IF k < 1 THEN NoCampo
    ELSE IF Contains(claves_normalizadas[k], categoria_normalizada)
         THEN mapeo_nombres[k].campo
         ELSE buscar_ultimo_desde(categoria_normalizada, k - 1)
buscar_campo_ultimo(categoria_normalizada) ==
    buscar_ultimo_desde(categoria_normalizada, Len(mapeo_nombres))
buscar_campo(categoria_normalizada) == buscar_desde(categoria_normalizada, 1)

\* campo_nombre of one column, from its categoria (None when absent or falsy)
campo_nombre(categoria) ==
    LET mapeado == IF Truthy(categoria)
                   THEN buscar_campo(normalizar_texto(py_str(categoria)))
                   ELSE NoCampo
    IN IF mapeado = NoCampo /\ Truthy(categoria)
       THEN <<"M","_">> \o normalize_collection_name(py_str(categoria))
       ELSE mapeado

\* categoria of the column at 0-based index i
categoria_de(categorias, i) ==
    IF i < Len(categorias) /\ Truthy(categorias[i + 1]) THEN categorias[i + 1] ELSE None

\* the loop that fills columnas_cupos, from 0-based index i on
RECURSIVE detectar_desde(_, _, _)
detectar_desde(encabezados, categorias, i) ==
    IF i >= Len(encabezados) THEN <<>>
    ELSE LET encabezado == encabezados[i + 1]
             categoria == categoria_de(categorias, i)
             nombre == campo_nombre(categoria)
         IN (IF Truthy(encabezado) /\ Contains(CUPOS, py_str(encabezado))
                /\ nombre # NoCampo
             THEN <<[indice |-> i, nombre |-> nombre, categoria_original |-> categoria]>>
             ELSE <<>>)
            \o detectar_desde(encabezados, categorias, i + 1)
detectar_columnas(encabezados, categorias) == detectar_desde(encabezados, categorias, 0)

\* row[col] if col < len(row) else None
celda(row, col) == IF col < Len(row) THEN row[col + 1] ELSE None

\* valor_meta without the default for a cell that is not a number
valor_meta_sin_defecto(valor) ==
    IF valor.t \in {"int", "float", "bool"} THEN FloatCell(valor.v) ELSE valor

\* the value stored for a metric cell
valor_meta(valor) ==
    IF valor.t # "None"
    THEN (IF valor.t \in {"int", "float", "bool"} THEN FloatCell(valor.v) ELSE IntCell(0))
    ELSE IntCell(0)

\* registro_base adding the centre fields only on sheets that have them
registro_base_sin_centro(row, regional) ==
    IF regional
    THEN (K_PERIODO :> StrCell(PERIODO_2025))
         @@ (K_COD_REGIONAL :> celda(row, col_cod_reg))
         @@ (K_REGIONAL :> celda(row, col_regional))
    ELSE (K_PERIODO :> StrCell(PERIODO_2025))
         @@ (K_COD_REGIONAL :> celda(row, col_cod_reg))
         @@ (K_REGIONAL :> celda(row, col_regional))
         @@ (K_COD_CENTRO :> celda(row, col_cod_centro(regional)))
         @@ (K_CENTRO :> celda(row, col_centro(regional)))

\* registro before the metric fields are added
registro_base(row, regional) ==
    (K_PERIODO :> StrCell(PERIODO_2025))
    @@ (K_COD_REGIONAL :> celda(row, col_cod_reg))
    @@ (K_REGIONAL :> celda(row, col_regional))
    @@ (K_COD_CENTRO :> IF col_cod_centro(regional) # NoCol /\ col_centro(regional) # NoCol
                        THEN celda(row, col_cod_centro(regional)) ELSE None)
    @@ (K_CENTRO :> IF col_cod_centro(regional) # NoCol /\ col_centro(regional) # NoCol
                    THEN celda(row, col_centro(regional)) ELSE None)

\* registro[col_info['nombre']] = valor for the columns from k on
RECURSIVE agregar_metas(_, _, _, _)
agregar_metas(registro, row, columnas, k) ==
    IF k > Len(columnas) THEN registro
    ELSE agregar_metas(
            (columnas[k].nombre :> valor_meta(celda(row, columnas[k].indice))) @@ registro,
            row, columnas, k + 1)

construir_registro(row, regional, columnas) ==
    agregar_metas(registro_base(row, regional), row, columnas, 1)

\* any(row)
any_cell(row) == \E i \in 1..Len(row) : Truthy(row[i])

\* registro.get('COD_REGIONAL') or registro.get('COD_CENTRO')
tiene_codigo(registro) == Truthy(registro[K_COD_REGIONAL]) \/ Truthy(registro[K_COD_CENTRO])

-----------------------------------------------------------------------------
\* Inputs: workbooks and sheets the call is made on

HOJA_CTROS == <<"5","."," ","F","O","R","M","A","C","I","O'","N"," ","X"," ","C","T","R","O","S">>
HOJA_REGIONAL == <<"4","."," ","F","O","R","M","A","C","I","O'","N"," ","X"," ","R","E","G","I","O","N","A","L">>
HOJA_REGIONAL_MIN == <<"4","."," ","F","o","r","m","a","c","i","o'","n"," ","x"," ","R","e","g","i","o","n","a","l">>
HOJA_AUSENTE == <<"H","o","j","a","1">>
T_META_CUPOS == <<"M","e","t","a"," ","C","u","p","o","s"," ","2","0","2","5">>
T_EJECUCION == <<"E","j","e","c","u","c","i","o'","n">>
T_COD == <<"C","o'","d">>
T_REG == <<"R","e","g","i","o","n","a","l">>
T_CENTRO == <<"C","e","n","t","r","o">>
T_ANTIOQUIA == <<"A","n","t","i","o","q","u","i","a">>
T_CENTRO_X == <<"C","e","n","t","r","o"," ","X">>
T_9101 == <<"9","1","0","1">>
T_NA == <<"N","/","A">>
T_TOTAL == <<"T","o","t","a","l">>
T_TITULO == <<"S","E","N","A">>
T_NOTA == <<"T","o","t","a","l"," ","C","u","p","o","s">>
CAT_NUEVA == <<"N","u","e","v","a"," ","C","a","t","e","g","o","r","i'","a"," ","X","Y","Z">>
CAT_NUEVA_GUION == <<"N","u","e","v","a"," ","C","a","t","e","g","o","r","i'","a"," ","-"," ","X","Y","Z">>
CAT_DOS_CLAVES == <<"O","p","e","r","a","r","i","o","s"," ","C","a","m","p","e","S","E","N","A"," ","y"," ","O","p","e","r","a","r","i","o","s"," ","R","e","g","u","l","a","r">>
CAT_CLAVE_LARGA == <<"A","u","x","i","l","i","a","r","e","s"," ","R","e","g","u","l","a","r"," ","/"," ","T","e'","c","n","i","c","o"," ","L","a","b","o","r","a","l"," ","R","e","g","u","l","a","r"," ","-"," ","P","r","e","s","e","n","c","i","a","l">>
CAT_MAYUSCULAS == <<" "," ","T","O","T","A","L"," ","T","E","C","N","O'","L","O","G","O","S"," ","R","E","G","U","L","A","R"," ","-"," ","P","R","E","S","E","N","C","I","A","L"," ">>
CAT_RAYA == <<"A","ndash","B">>
CAT_ESPACIO == <<" ">>
CAT_GUIONES == <<"-","-","-">>
CAT_CUPOS == <<"C","u","p","o","s"," ","O","p","e","r","a","r","i","o","s"," ","R","e","g","u","l","a","r">>

\* the keys of mapeo_nombres spelled without accents, entry by entry
claves_sin_tilde == <<
    <<"T","e","c","n","o","l","o","g","o","s"," ","R","e","g","u","l","a","r"," ","-"," ","P","r","e","s","e","n","c","i","a","l">>,
    <<"T","e","c","n","o","l","o","g","o","s"," ","R","e","g","u","l","a","r"," ","-"," ","V","i","r","t","u","a","l">>,
    <<"T","e","c","n","o","l","o","g","o","s"," ","R","e","g","u","l","a","r"," ","-"," ","A"," ","D","i","s","t","a","n","c","i","a">>,
    <<"T","e","c","n","o","l","o","g","o","s"," ","C","a","m","p","e","S","E","N","A">>,
    <<"T","e","c","n","o","l","o","g","o","s"," ","F","u","l","l"," ","P","o","p","u","l","a","r">>,
    <<"S","u","b","T","o","t","a","l"," ","T","e","c","n","o","l","o","g","o","s"," ","(","E",")">>,
    <<"E","D","U","C","A","C","I","O","N"," ","S","U","P","E","R","I","O","R"," ","(","=","E",")">>,
    <<"O","p","e","r","a","r","i","o","s"," ","R","e","g","u","l","a","r">>,
    <<"O","p","e","r","a","r","i","o","s"," ","C","a","m","p","e","S","E","N","A">>,
    <<"O","p","e","r","a","r","i","o","s"," ","F","u","l","l"," ","P","o","p","u","l","a","r">>,
    <<"S","u","b","T","o","t","a","l"," ","O","p","e","r","a","r","i","o","s"," ","(","B",")">>,
    <<"A","u","x","i","l","i","a","r","e","s"," ","R","e","g","u","l","a","r">>,
    <<"A","u","x","i","l","i","a","r","e","s"," ","C","a","m","p","e","S","E","N","A">>,
    <<"A","u","x","i","l","i","a","r","e","s"," ","F","u","l","l"," ","P","o","p","u","l","a","r">>,
    <<"S","u","b","T","o","t","a","l"," ","A","u","x","i","l","i","a","r","e","s"," ","(","A",")">>,
    <<"T","e","c","n","i","c","o"," ","L","a","b","o","r","a","l"," ","R","e","g","u","l","a","r"," ","-"," ","P","r","e","s","e","n","c","i","a","l">>,
    <<"T","e","c","n","i","c","o"," ","L","a","b","o","r","a","l"," ","R","e","g","u","l","a","r"," ","-"," ","V","i","r","t","u","a","l">>,
    <<"T","e","c","n","i","c","o"," ","L","a","b","o","r","a","l"," ","C","a","m","p","e","S","E","N","A">>,
    <<"T","e","c","n","i","c","o"," ","L","a","b","o","r","a","l"," ","F","u","l","l"," ","P","o","p","u","l","a","r">>,
    <<"T","e","c","n","i","c","o"," ","L","a","b","o","r","a","l"," ","A","r","t","i","c","u","l","a","c","i","o","n"," ","c","o","n"," ","l","a"," ","M","e","d","i","a">>,
    <<"S","u","b","T","o","t","a","l"," ","T","e","c","n","i","c","o"," ","L","a","b","o","r","a","l"," ","(","C",")">>,
    <<"P","r","o","f","e","s","i","o","n","a","l"," ","T","e","c","n","i","c","o"," ","(","T",")">>,
    <<"T","O","T","A","L"," ","F","O","R","M","A","C","I","O","N"," ","L","A","B","O","R","A","L">>,
    <<"T","O","T","A","L"," ","F","O","R","M","A","C","I","O","N"," ","T","I","T","U","L","A","D","A">>,
    <<"C","o","m","p","l","e","m","e","n","t","a","r","i","a"," ","V","i","r","t","u","a","l"," ","S","i","n"," ","B","i","l","i","n","g","u","i","s","m","o">>,
    <<"C","o","m","p","l","e","m","e","n","t","a","r","i","a"," ","P","r","e","s","e","n","c","i","a","l"," ","S","i","n"," ","B","i","l","i","n","g","u","i","s","m","o">>,
    <<"C","o","m","p","l","e","m","e","n","t","a","r","i","a"," ","B","i","l","i","n","g","u","i","s","m","o"," ","V","i","r","t","u","a","l">>,
    <<"C","o","m","p","l","e","m","e","n","t","a","r","i","a"," ","B","i","l","i","n","g","u","i","s","m","o"," ","P","r","e","s","e","n","c","i","a","l">>,
    <<"S","u","b","T","o","t","a","l"," ","P","r","o","g","r","a","m","a","s"," ","B","i","l","i","n","g","u","e","s">>,
    <<"C","o","m","p","l","e","m","e","n","t","a","r","i","a"," ","C","a","m","p","e","S","E","N","A">>,
    <<"C","o","m","p","l","e","m","e","n","t","a","r","i","a"," ","F","u","l","l"," ","P","o","p","u","l","a","r">>,
    <<"T","O","T","A","L"," ","C","O","M","P","L","E","M","E","N","T","A","R","I","A">>,
    <<"T","O","T","A","L"," ","F","O","R","M","A","C","I","O","N"," ","P","R","O","F","E","S","I","O","N","A","L">>
>>

\* rows
fila_titulo == <<StrCell(T_TITULO), None>>
fila_vacia == <<>>
fila_nota == <<None, StrCell(T_NOTA)>>
enc_id == <<StrCell(T_COD), StrCell(T_REG), StrCell(T_COD), StrCell(T_CENTRO)>>
fila_enc(h1, h2) == enc_id \o <<h1, h2>>
fila_cat(c1, c2) == <<None, None, None, None, c1, c2>>
fila_cat_corta(c1) == <<None, None, None, None, c1>>

CAT_1 == StrCell(mapeo_nombres[1].clave)
CAT_8 == StrCell(mapeo_nombres[8].clave)

fila_centro == <<IntCell(5), StrCell(T_ANTIOQUIA), IntCell(9101), StrCell(T_CENTRO_X),
                 IntCell(100), FloatCell(2)>>
FilasDatos == {
    fila_centro,
    <<IntCell(5), StrCell(T_ANTIOQUIA), None, None, StrCell(T_NA), None>>,
    <<None, StrCell(T_TOTAL), None, None, IntCell(7), IntCell(8)>>,
    <<None, None, None, None, None, None>>,
    fila_vacia,
    <<IntCell(0), StrCell(T_TOTAL), IntCell(0), StrCell(T_CENTRO_X), IntCell(3), IntCell(4)>>,
    <<None, None, StrCell(T_9101), StrCell(T_CENTRO_X), IntCell(1), IntCell(0)>>,
    <<IntCell(5), StrCell(T_ANTIOQUIA)>>,
    <<StrCell(<<>>), StrCell(<<>>), StrCell(<<>>), StrCell(<<>>), IntCell(0), IntCell(0)>>,
    <<IntCell(0), None, None, None, None, None>>
}
SeqsDatos == UNION {[1..n -> FilasDatos] : n \in 0..MaxDataRows}

Repetir(fila, n) == [i \in 1..n |-> fila]

\* sheets that place the header block at row h (family "header location")
HojasEncabezado ==
    {(IF h >= 2 THEN Repetir(relleno, h - 2) \o <<cat>> ELSE <<>>) \o <<enc>> \o cola :
        h \in 1..MaxHeaderPos,
        relleno \in {fila_vacia, fila_titulo},
        cat \in {fila_cat(CAT_1, CAT_8), fila_cat(StrCell(CAT_CUPOS), CAT_8)},
        enc \in {fila_enc(StrCell(CUPOS), StrCell(CUPOS)), fila_enc(StrCell(T_EJECUCION), None)},
        cola \in {<<>>, <<fila_centro>>, <<fila_centro, fila_nota>>}}

CategoriasTabla ==
    {StrCell(mapeo_nombres[k].clave) : k \in 1..Len(mapeo_nombres)}
    \cup {StrCell(claves_sin_tilde[k]) : k \in 1..Len(claves_sin_tilde)}
CategoriasLibres ==
    {StrCell(CAT_NUEVA), StrCell(CAT_NUEVA_GUION), StrCell(CAT_DOS_CLAVES),
     StrCell(CAT_CLAVE_LARGA), StrCell(CAT_MAYUSCULAS), StrCell(CAT_RAYA),
     StrCell(CAT_ESPACIO), StrCell(CAT_GUIONES), StrCell(<<>>),
     IntCell(2025), IntCell(0), None}

\* sheets that vary the header cells and the categories above them
HojasColumnas ==
    {<<fila_titulo, cat, fila_enc(h1, h2), fila_centro>> :
        cat \in {fila_cat(c1, c2) : c1 \in CategoriasTabla \cup CategoriasLibres,
                                    c2 \in {None, CAT_1, StrCell(CAT_NUEVA)}}
                \cup {fila_cat_corta(c1) : c1 \in CategoriasTabla \cup CategoriasLibres},
        h1 \in {StrCell(CUPOS), StrCell(T_META_CUPOS)},
        h2 \in {StrCell(CUPOS), StrCell(T_EJECUCION), None}}

\* sheets that vary the data rows
HojasDatos ==
    {<<fila_cat(CAT_1, CAT_8), fila_enc(StrCell(CUPOS), StrCell(CUPOS))>> \o datos :
        datos \in SeqsDatos}

LIBRO == <<HOJA_REGIONAL, HOJA_CTROS, HOJA_REGIONAL_MIN>>
Entradas ==
    {[sheetnames |-> LIBRO, sheet_name |-> HOJA_CTROS, ws |-> hoja] :
        hoja \in HojasEncabezado \cup HojasColumnas}
    \cup {[sheetnames |-> LIBRO, sheet_name |-> nombre, ws |-> hoja] :
        nombre \in {HOJA_CTROS, HOJA_REGIONAL, HOJA_REGIONAL_MIN}, hoja \in HojasDatos}
    \cup {[sheetnames |-> <<HOJA_REGIONAL>>, sheet_name |-> nombre, ws |-> <<>>] :
        nombre \in {HOJA_CTROS, HOJA_AUSENTE}}

-----------------------------------------------------------------------------
\* no call of get_sheet_names or read_xlsb_sheet is under way
XlsbIdle ==
    /\ sheets = <<>>
    /\ exclude_sql = TRUE
    /\ names = NoResult
    /\ rows = <<>>
    /\ xpc = "idle"
    /\ headers = <<>>
    /\ row_i = 0
    /\ data = <<>>
    /\ data_origen = <<>>

\* no classifier or normalizer has been applied
TextoIdle ==
    /\ entrada = None
    /\ tpc = "idle"
    /\ es_metas = FALSE
    /\ es_fpi = FALSE
    /\ norm1 = <<>>
    /\ norm2 = <<>>
    /\ col1 = <<>>
    /\ col2 = <<>>

\* the server has received no request: no collection, no file, empty registry
SyncIdle ==
    /\ db = <<>>
    /\ oplog = <<>>
    /\ peticiones = 0
    /\ reloj = 0
    /\ uploaded_files = <<>>
    /\ disco = <<>>
    /\ archivo = <<>>
    /\ file_id = <<>>
    /\ hpc = "idle"
    /\ hojas = <<>>
    /\ sheet_k = 0
    /\ mongodb_collections = <<>>
    /\ respuesta = <<>>
    /\ abiertos = {}
    /\ pedido = <<>>
    /\ salida = <<>>

\* no pagination under way
PagIdle ==
    /\ extraidos = <<>>
    /\ limit = None
    /\ offset = 0
    /\ ppc = "idle"
    /\ total = 0
    /\ pagina = <<>>

\* The call read_xlsx_sheet_metas(file_path, sheet_name)

Init ==
    /\ \E e \in Entradas :
        /\ sheetnames = e.sheetnames
        /\ sheet_name = e.sheet_name
        /\ ws = e.ws
    /\ pc = "call"
    /\ wb_open = FALSE
    /\ row_num = 0
    /\ header_row_num = 0
    /\ fila_categorias = <<>>
    /\ fila_encabezados = <<>>
    /\ is_regional = FALSE
    /\ columnas_cupos = <<>>
    /\ data_row = 0
    /\ resultados = <<>>
    /\ origen = <<>>
    /\ raised = "none"
    /\ returned = NoResult
    /\ XlsbIdle
    /\ TextoIdle
    /\ SyncIdle
    /\ PagIdle

\* app.py:179-185, sheet present: the workbook is loaded and ws selected
OpenWorkbook ==
    /\ UNCHANGED fuera_de_metas
    /\ pc = "call"
    /\ sheet_name \in Range(sheetnames)
    /\ wb_open' = TRUE
    /\ row_num' = 1
    /\ pc' = "scan"
    /\ UNCHANGED <<sheetnames, sheet_name, ws, header_row_num, fila_categorias,
                   fila_encabezados, is_regional, columnas_cupos, data_row,
                   resultados, origen, raised, returned>>

\* SheetNotFound falling back to the first sheet of the workbook
SheetNotFound_primera_hoja ==
    /\ UNCHANGED fuera_de_metas
    /\ pc = "call"
    /\ sheet_name \notin Range(sheetnames)
    /\ wb_open' = TRUE
    /\ row_num' = 1
    /\ pc' = "scan"
    /\ UNCHANGED <<sheetnames, sheet_name, ws, header_row_num, fila_categorias,
                   fila_encabezados, is_regional, columnas_cupos, data_row,
                   resultados, origen, raised, returned>>

\* app.py:179-183, sheet absent: wb.close() and ValueError
SheetNotFound ==
    /\ UNCHANGED fuera_de_metas
    /\ pc = "call"
    /\ sheet_name \notin Range(sheetnames)
    /\ wb_open' = FALSE
    /\ raised' = "ValueError: hoja no encontrada"
    /\ pc' = "failed"
    /\ UNCHANGED <<sheetnames, sheet_name, ws, row_num, header_row_num, fila_categorias,
                   fila_encabezados, is_regional, columnas_cupos, data_row,
                   resultados, origen, returned>>

\* ScanRowFound with the scan written range(1, 21)
ScanRowFound_hasta20 ==
    /\ UNCHANGED fuera_de_metas
    /\ pc = "scan"
    /\ row_num <= SCAN_STOP
    /\ row_num <= Len(ws)
    /\ row_has_cupos(ws[row_num])
    /\ header_row_num' = row_num
    /\ pc' = "columns"
    /\ UNCHANGED <<sheetnames, sheet_name, ws, wb_open, row_num, fila_categorias,
                   fila_encabezados, is_regional, columnas_cupos, data_row,
                   resultados, origen, raised, returned>>

\* app.py:189-193, one iteration: row row_num has a 'Cupos' cell, break
ScanRowFound ==
    /\ UNCHANGED fuera_de_metas
    /\ pc = "scan"
    /\ row_num < SCAN_STOP
    /\ row_num <= Len(ws)
    /\ row_has_cupos(ws[row_num])
    /\ header_row_num' = row_num
    /\ pc' = "columns"
    /\ UNCHANGED <<sheetnames, sheet_name, ws, wb_open, row_num, fila_categorias,
                   fila_encabezados, is_regional, columnas_cupos, data_row,
                   resultados, origen, raised, returned>>

\* app.py:189-191, one iteration: row row_num has no 'Cupos' cell
ScanRowNext ==
    /\ UNCHANGED fuera_de_metas
    /\ pc = "scan"
    /\ row_num < SCAN_STOP
    /\ row_num <= Len(ws)
    /\ ~row_has_cupos(ws[row_num])
    /\ row_num' = row_num + 1
    /\ UNCHANGED <<sheetnames, sheet_name, ws, pc, wb_open, header_row_num,
                   fila_categorias, fila_encabezados, is_regional, columnas_cupos,
                   data_row, resultados, origen, raised, returned>>

\* app.py:190, row_num is past the last row of the sheet.  What the read-only
\* reader yields there is the library's choice: no row at all, so that
\* list(...)[0] raises IndexError with the workbook left open ...
ScanPastEndRaises ==
    /\ UNCHANGED fuera_de_metas
    /\ pc = "scan"
    /\ row_num < SCAN_STOP
    /\ row_num > Len(ws)
    /\ raised' = "IndexError"
    /\ pc' = "failed"
    /\ UNCHANGED <<sheetnames, sheet_name, ws, wb_open, row_num, header_row_num,
                   fila_categorias, fila_encabezados, is_regional, columnas_cupos,
                   data_row, resultados, origen, returned>>

\* ... or one row of padding, which has no 'Cupos' cell
ScanPastEndPadded ==
    /\ UNCHANGED fuera_de_metas
    /\ pc = "scan"
    /\ row_num < SCAN_STOP
    /\ row_num > Len(ws)
    /\ row_num' = row_num + 1
    /\ UNCHANGED <<sheetnames, sheet_name, ws, pc, wb_open, header_row_num,
                   fila_categorias, fila_encabezados, is_regional, columnas_cupos,
                   data_row, resultados, origen, raised, returned>>

\* HeaderNotFound falling back to row 1 as the header row
HeaderNotFound_fila1 ==
    /\ UNCHANGED fuera_de_metas
    /\ pc = "scan"
    /\ row_num >= SCAN_STOP
    /\ Len(ws) >= 1
    /\ header_row_num' = 1
    /\ pc' = "columns"
    /\ UNCHANGED <<sheetnames, sheet_name, ws, wb_open, row_num, fila_categorias,
                   fila_encabezados, is_regional, columnas_cupos, data_row,
                   resultados, origen, raised, returned>>

\* app.py:195-197, the loop ended without break: wb.close() and ValueError
HeaderNotFound ==
    /\ UNCHANGED fuera_de_metas
    /\ pc = "scan"
    /\ row_num >= SCAN_STOP
    /\ wb_open' = FALSE
    /\ raised' = "ValueError: sin fila de encabezados"
    /\ pc' = "failed"
    /\ UNCHANGED <<sheetnames, sheet_name, ws, row_num, header_row_num, fila_categorias,
                   fila_encabezados, is_regional, columnas_cupos, data_row,
                   resultados, origen, returned>>

\* app.py:199-296: the two header rows, the sheet kind, columnas_cupos
DetectColumns ==
    /\ UNCHANGED fuera_de_metas
    /\ pc = "columns"
    /\ fila_categorias' = ws[iter_min_row(header_row_num - 1)]
    /\ fila_encabezados' = ws[header_row_num]
    /\ is_regional' = sheet_is_regional(sheet_name)
    /\ columnas_cupos' = detectar_columnas(ws[header_row_num],
                                           ws[iter_min_row(header_row_num - 1)])
    /\ data_row' = header_row_num + 1
    /\ pc' = "rows"
    /\ UNCHANGED <<sheetnames, sheet_name, ws, wb_open, row_num, header_row_num,
                   resultados, origen, raised, returned>>

\* app.py:299-302: a row without any truthy cell is skipped
SkipRow ==
    /\ UNCHANGED fuera_de_metas
    /\ pc = "rows"
    /\ data_row <= Len(ws)
    /\ ~any_cell(ws[data_row])
    /\ data_row' = data_row + 1
    /\ UNCHANGED <<sheetnames, sheet_name, ws, pc, wb_open, row_num, header_row_num,
                   fila_categorias, fila_encabezados, is_regional, columnas_cupos,
                   resultados, origen, raised, returned>>

\* app.py:304-334: the registro of a row is built and appended
AppendRow ==
    /\ UNCHANGED fuera_de_metas
    /\ pc = "rows"
    /\ data_row <= Len(ws)
    /\ any_cell(ws[data_row])
    /\ LET registro == construir_registro(ws[data_row], is_regional, columnas_cupos)
       IN /\ tiene_codigo(registro)
          /\ resultados' = Append(resultados, registro)
          /\ origen' = Append(origen, data_row)
    /\ data_row' = data_row + 1
    /\ UNCHANGED <<sheetnames, sheet_name, ws, pc, wb_open, row_num, header_row_num,
                   fila_categorias, fila_encabezados, is_regional, columnas_cupos,
                   raised, returned>>

\* app.py:304-333: the registro of a row is built and not appended
DropRow ==
    /\ UNCHANGED fuera_de_metas
    /\ pc = "rows"
    /\ data_row <= Len(ws)
    /\ any_cell(ws[data_row])
    /\ ~tiene_codigo(construir_registro(ws[data_row], is_regional, columnas_cupos))
    /\ data_row' = data_row + 1
    /\ UNCHANGED <<sheetnames, sheet_name, ws, pc, wb_open, row_num, header_row_num,
                   fila_categorias, fila_encabezados, is_regional, columnas_cupos,
                   resultados, origen, raised, returned>>

\* app.py:336-337: the rows are exhausted, wb.close() and return resultados
Finish ==
    /\ UNCHANGED fuera_de_metas
    /\ pc = "rows"
    /\ data_row > Len(ws)
    /\ wb_open' = FALSE
    /\ returned' = resultados
    /\ pc' = "done"
    /\ UNCHANGED <<sheetnames, sheet_name, ws, row_num, header_row_num, fila_categorias,
                   fila_encabezados, is_regional, columnas_cupos, data_row,
                   resultados, origen, raised>>

Next ==
    \/ OpenWorkbook
    \/ SheetNotFound
    \/ ScanRowFound
    \/ ScanRowNext
    \/ ScanPastEndRaises
    \/ ScanPastEndPadded
    \/ HeaderNotFound
    \/ DetectColumns
    \/ SkipRow
    \/ AppendRow
    \/ DropRow
    \/ Finish

Spec == Init /\ [][Next]_vars

-----------------------------------------------------------------------------
\* get_sheet_names and read_xlsb_sheet (app.py:103-165)

\* most sheets of a workbook
MaxSheets == 3
\* most cells of a first row
MaxHeaderLen == 3
\* most rows after the first row
MaxXlsbRows == 2

SQL == <<"S","Q","L">>
COLUMN_ == <<"c","o","l","u","m","n","_">>

\* get_sheet_names testing the name as written
get_sheet_names_sin_upper(wb_sheets, excl) ==
    LET sin_sql(s) == ~Contains(SQL, s)
    IN IF excl THEN SelectSeq(wb_sheets, sin_sql) ELSE wb_sheets

\* app.py:162-165
get_sheet_names(wb_sheets, excl) ==
    LET sin_sql(s) == ~Contains(SQL, upper(s))
    IN IF excl THEN SelectSeq(wb_sheets, sin_sql) ELSE wb_sheets

\* app.py:122-127: headers, given the ones built so far
RECURSIVE leer_encabezados(_, _)
leer_encabezados(fila, hs) ==
    IF Len(hs) = Len(fila) THEN hs
    ELSE LET cell == fila[Len(hs) + 1]
             value == IF cell = None THEN StrCell(COLUMN_ \o decimal(Len(hs))) ELSE cell
         IN leer_encabezados(fila, Append(hs, strip(py_str(value))))

\* valor_celda storing every non-null cell as text
valor_celda_todo_texto(value) ==
    IF value # None THEN StrCell(strip(py_str(value))) ELSE None

\* app.py:134-141: the value stored for a cell
valor_celda(value) ==
    IF value.t \in {"int", "float", "bool"} THEN value
    ELSE IF value # None THEN StrCell(strip(py_str(value)))
    ELSE None

\* app.py:131-141: row_data, given the one built from the cells before cell i
RECURSIVE leer_fila(_, _, _, _)
leer_fila(row, hs, i, row_data) ==
    IF i > Len(row) THEN row_data
    ELSE leer_fila(row, hs, i + 1,
                   IF i <= Len(hs) THEN (hs[i] :> valor_celda(row[i])) @@ row_data
                   ELSE row_data)

\* any(v is not None for v in row_data.values())
algun_valor(row_data) == \E h \in DOMAIN row_data : row_data[h] # None

\* inputs
T_A == <<"A">>
T_A_ESPACIOS == <<" ","A"," ">>
T_B == <<"B">>
T_X == <<"x">>
T_X_ESPACIOS == <<" ","x"," ">>
T_ESPACIO == <<" ">>
T_COLUMN_1 == <<"c","o","l","u","m","n","_","1">>
T_COLUMN_2 == <<"c","o","l","u","m","n","_","2">>
BoolCell(b) == [t |-> "bool", v |-> b]

CeldasEncabezado ==
    {StrCell(T_A), StrCell(T_A_ESPACIOS), StrCell(T_B), StrCell(<<>>), None,
     FloatCell(1), StrCell(T_COLUMN_1)}
FilasEncabezado == UNION {[1..n -> CeldasEncabezado] : n \in 0..MaxHeaderLen}
\* the sheet of the worked example: first row ["A", "", None], row [1, "x", None]
fila_enc_ejemplo == <<StrCell(T_A), StrCell(<<>>), None>>
fila_ejemplo == <<IntCell(1), StrCell(T_X), None>>
FilasXlsb == {
    fila_ejemplo,
    <<None, None, StrCell(T_X_ESPACIOS)>>,
    <<StrCell(T_X), None>>,
    <<None, FloatCell(2)>>,
    <<None, None>>,
    <<None, None, None>>,
    <<None, None, FloatCell(7)>>,
    <<StrCell(T_ESPACIO), None>>,
    <<BoolCell(0), StrCell(T_X_ESPACIOS)>>,
    <<IntCell(0)>>,
    <<None>>,
    <<>>
}
SeqsXlsb == UNION {[1..n -> FilasXlsb] : n \in 0..MaxXlsbRows}
HojasXlsb ==
    {<<enc, fila>> : enc \in FilasEncabezado, fila \in {fila_ejemplo, <<None, None, StrCell(T_X)>>}}
    \cup {<<enc>> \o filas :
            enc \in {<<StrCell(T_A), StrCell(T_B)>>, <<StrCell(T_A), StrCell(T_A)>>,
                     <<StrCell(T_A)>>, fila_enc_ejemplo},
            filas \in SeqsXlsb}
    \cup {<<>>}

N_DATOS == <<"D","a","t","o","s">>
N_SQL == <<"S","Q","L">>
N_SQL_MIN == <<"s","q","l","_","x">>
N_CONSULTA == <<"C","o","n","s","u","l","t","a"," ","S","q","l">>
N_SQ_L == <<"S","Q"," ","L">>
NombresHoja == {N_DATOS, N_SQL, N_SQL_MIN, N_CONSULTA, N_SQ_L}
\* sheet names of one workbook are distinct
ListasHojas ==
    {l \in UNION {[1..n -> NombresHoja] : n \in 0..MaxSheets} :
        \A i, j \in 1..Len(l) : i # j => l[i] # l[j]}

EntradasXlsb ==
    {[sheets |-> l, exclude_sql |-> e, rows |-> <<fila_enc_ejemplo, fila_ejemplo>>] :
        l \in ListasHojas, e \in BOOLEAN}
    \cup {[sheets |-> <<N_DATOS, N_SQL>>, exclude_sql |-> TRUE, rows |-> h] : h \in HojasXlsb}

\* no call of read_xlsx_sheet_metas is under way
MetasIdle ==
    /\ sheetnames = <<>>
    /\ sheet_name = <<>>
    /\ ws = <<>>
    /\ pc = "idle"
    /\ wb_open = FALSE
    /\ row_num = 0
    /\ header_row_num = 0
    /\ fila_categorias = <<>>
    /\ fila_encabezados = <<>>
    /\ is_regional = FALSE
    /\ columnas_cupos = <<>>
    /\ data_row = 0
    /\ resultados = <<>>
    /\ origen = <<>>
    /\ raised = "none"
    /\ returned = NoResult

\* get_sheet_names(file_path, exclude_sql), then read_xlsb_sheet(file_path, s)
\* for a sheet s of the workbook
InitXlsb ==
    /\ \E e \in EntradasXlsb :
        /\ sheets = e.sheets
        /\ exclude_sql = e.exclude_sql
        /\ rows = e.rows
    /\ names = NoResult
    /\ xpc = "names_call"
    /\ headers = <<>>
    /\ row_i = 0
    /\ data = <<>>
    /\ data_origen = <<>>
    /\ MetasIdle
    /\ TextoIdle
    /\ SyncIdle
    /\ PagIdle

\* app.py:161-165
GetSheetNames ==
    /\ UNCHANGED fuera_de_xlsb
    /\ xpc = "names_call"
    /\ names' = get_sheet_names(sheets, exclude_sql)
    /\ xpc' = "read_call"
    /\ UNCHANGED <<sheets, exclude_sql, rows, headers, row_i, data, data_origen>>

\* app.py:114-119: the sheet has no row, the empty list is returned
ReadNoRows ==
    /\ UNCHANGED fuera_de_xlsb
    /\ xpc = "read_call"
    /\ rows = <<>>
    /\ xpc' = "done"
    /\ UNCHANGED <<sheets, exclude_sql, names, rows, headers, row_i, data, data_origen>>

\* app.py:114-127: the first row gives the headers
ReadHeaders ==
    /\ UNCHANGED fuera_de_xlsb
    /\ xpc = "read_call"
    /\ rows # <<>>
    /\ headers' = leer_encabezados(rows[1], <<>>)
    /\ row_i' = 2
    /\ xpc' = "rows"
    /\ UNCHANGED <<sheets, exclude_sql, names, rows, data, data_origen>>

\* app.py:130-145: row_data has a value that is not None and is appended
KeepRow ==
    /\ UNCHANGED fuera_de_xlsb
    /\ xpc = "rows"
    /\ row_i <= Len(rows)
    /\ LET row_data == leer_fila(rows[row_i], headers, 1, <<>>)
       IN /\ algun_valor(row_data)
          /\ data' = Append(data, row_data)
          /\ data_origen' = Append(data_origen, row_i)
    /\ row_i' = row_i + 1
    /\ UNCHANGED <<sheets, exclude_sql, names, rows, xpc, headers>>

\* app.py:130-144: every value of row_data is None, the row is left out
DiscardRow ==
    /\ UNCHANGED fuera_de_xlsb
    /\ xpc = "rows"
    /\ row_i <= Len(rows)
    /\ ~algun_valor(leer_fila(rows[row_i], headers, 1, <<>>))
    /\ row_i' = row_i + 1
    /\ UNCHANGED <<sheets, exclude_sql, names, rows, xpc, headers, data, data_origen>>

\* app.py:147: the rows are exhausted, data is returned
ReturnData ==
    /\ UNCHANGED fuera_de_xlsb
    /\ xpc = "rows"
    /\ row_i > Len(rows)
    /\ xpc' = "done"
    /\ UNCHANGED <<sheets, exclude_sql, names, rows, headers, row_i, data, data_origen>>

NextXlsb ==
    \/ GetSheetNames
    \/ ReadNoRows
    \/ ReadHeaders
    \/ KeepRow
    \/ DiscardRow
    \/ ReturnData

SpecXlsb == InitXlsb /\ [][NextXlsb]_vars

-----------------------------------------------------------------------------
\* The file-kind classifiers (app.py:65-73) and the normalizers applied twice

\* most pieces a text given to the classifiers and normalizers is made of
MaxPiezas == 3

SEGUIMIENTO == <<"s","e","g","u","i","m","i","e","n","t","o">>
METAS == <<"m","e","t","a","s">>
SENA == <<"s","e","n","a">>
EJECUCION_FPI == <<"e","j","e","c","u","c","i","o","n"," ","f","p","i">>
EJECUCION_FPI_TILDE == <<"e","j","e","c","u","c","i","o'","n"," ","f","p","i">>

\* app.py:65-68
is_ejecucion_fpi_file(filename) ==
    LET normalized == lower(filename)
    IN Contains(EJECUCION_FPI, normalized) \/ Contains(EJECUCION_FPI_TILDE, normalized)

\* is_metas_file asking for any one of the three words
is_metas_file_alguna(filename) ==
    LET normalized == lower(filename)
    IN Contains(SEGUIMIENTO, normalized) \/ Contains(METAS, normalized)
       \/ Contains(SENA, normalized)

\* app.py:70-73
is_metas_file(filename) ==
    LET normalized == lower(filename)
    IN Contains(SEGUIMIENTO, normalized) /\ Contains(METAS, normalized)
       /\ Contains(SENA, normalized)

\* inputs: texts made of at most MaxPiezas pieces, the keys of the category
\* table in their two spellings, and None
P_METAS == <<"M","e","t","a","s">>
P_SENA == <<"S","E","N","A">>
P_EJECUCION_FPI == <<"E","j","e","c","u","c","i","o'","n"," ","F","P","I">>
P_EJECUCION_FPI_MAY == <<"E","J","E","C","U","C","I","O'","N"," ","F","P","I">>
P_EJECUCION == <<"e","j","e","c","u","c","i","o","n">>
P_FPI == <<"F","p","i">>
Piezas ==
    {SEGUIMIENTO, P_METAS, P_SENA, EJECUCION_FPI, P_EJECUCION_FPI, P_EJECUCION_FPI_MAY,
     P_EJECUCION, P_FPI, <<" ">>, <<"_">>, <<"ndash">>}
RECURSIVE Unir(_)
Unir(piezas) == IF piezas = <<>> THEN <<>> ELSE Head(piezas) \o Unir(Tail(piezas))
TextosDePiezas == {Unir(ps) : ps \in UNION {[1..n -> Piezas] : n \in 0..MaxPiezas}}
EntradasTexto ==
    {StrCell(t) : t \in TextosDePiezas}
    \cup CategoriasTabla
    \cup {StrCell(CAT_RAYA), StrCell(CAT_GUIONES), StrCell(CAT_NUEVA_GUION), None}

InitTexto ==
    /\ entrada \in EntradasTexto
    /\ tpc = "call"
    /\ es_metas = FALSE
    /\ es_fpi = FALSE
    /\ norm1 = <<>>
    /\ norm2 = <<>>
    /\ col1 = <<>>
    /\ col2 = <<>>
    /\ MetasIdle
    /\ XlsbIdle
    /\ SyncIdle
    /\ PagIdle

\* app.py:65-73: the two classifiers applied to a declared file name
ClassifyFile ==
    /\ UNCHANGED fuera_de_texto
    /\ tpc = "call"
    /\ entrada # None
    /\ es_metas' = is_metas_file(entrada.v)
    /\ es_fpi' = is_ejecucion_fpi_file(entrada.v)
    /\ tpc' = "classified"
    /\ UNCHANGED <<entrada, norm1, norm2, col1, col2>>

\* app.py:260-267: normalizar_texto(entrada); 'not texto' is true of None and
\* of the empty text
NormalizeText ==
    /\ UNCHANGED fuera_de_texto
    /\ \/ tpc = "classified"
       \/ (tpc = "call" /\ entrada = None)
    /\ norm1' = normalizar_texto(IF entrada = None THEN <<>> ELSE entrada.v)
    /\ tpc' = "normalized"
    /\ UNCHANGED <<entrada, es_metas, es_fpi, norm2, col1, col2>>

\* app.py:260-267: normalizar_texto applied to its own result
NormalizeTextAgain ==
    /\ UNCHANGED fuera_de_texto
    /\ tpc = "normalized"
    /\ norm2' = normalizar_texto(norm1)
    /\ tpc' = "renormalized"
    /\ UNCHANGED <<entrada, es_metas, es_fpi, norm1, col1, col2>>

\* app.py:47-63: normalize_collection_name(entrada)
CollectionName ==
    /\ UNCHANGED fuera_de_texto
    /\ tpc = "renormalized"
    /\ entrada # None
    /\ col1' = normalize_collection_name(entrada.v)
    /\ tpc' = "named"
    /\ UNCHANGED <<entrada, es_metas, es_fpi, norm1, norm2, col2>>

\* app.py:47-63: normalize_collection_name applied to its own result
CollectionNameAgain ==
    /\ UNCHANGED fuera_de_texto
    /\ tpc = "named"
    /\ col2' = normalize_collection_name(col1)
    /\ tpc' = "done"
    /\ UNCHANGED <<entrada, es_metas, es_fpi, norm1, norm2, col1>>

NextTexto ==
    \/ ClassifyFile
    \/ NormalizeText
    \/ NormalizeTextAgain
    \/ CollectionName
    \/ CollectionNameAgain

SpecTexto == InitTexto /\ [][NextTexto]_vars

-----------------------------------------------------------------------------
\* The upload endpoints and the MongoDB database (app.py:357-538, 978-999).
\* The handlers are 'async def' without an await, so a request runs to its
\* response before another begins.  Each write to MongoDB is one step.

\* most requests the server receives
MaxPeticiones == 2
\* most records one sheet gives
MaxRegistros == 1

PREFIJO_FPI == <<"e","j","e","c","u","c","i","o","n","_","f","p","i","_">>
METAS_FPI_CENTROS == <<"m","e","t","a","s","_","f","p","i","_","c","e","n","t","r","o","s">>
METAS_FPI_REGIONAL == <<"m","e","t","a","s","_","f","p","i","_","r","e","g","i","o","n","a","l">>
EXT_XLSB == <<".","x","l","s","b">>
EXT_XLSX == <<".","x","l","s","x">>

\* str.endswith
EndsWith(s, sufijo) ==
    /\ Len(s) >= Len(sufijo)
    /\ SubSeq(s, Len(s) - Len(sufijo) + 1, Len(s)) = sufijo

\* database[name] read: a collection that does not exist has no document
Documentos(d, name) == IF name \in DOMAIN d THEN d[name] ELSE {}
\* collection.delete_many({}) leaving the documents where they are
delete_many_nada(d, name) == d
\* collection.delete_many({}): every document of the collection is removed
delete_many(d, name) ==
    IF name \in DOMAIN d THEN [d EXCEPT ![name] = {}] ELSE d
\* collection.insert_many(docs): the documents are added to the collection
insert_many(d, name, docs) == (name :> (Documentos(d, name) \cup docs)) @@ d
\* database[name].drop()
drop(d, name) == [c \in (DOMAIN d) \ {name} |-> d[c]]

\* the records the extractor returns for a sheet that gives n records in the
\* request number p; a record is told from all others by where it came from
Registros(p, nombre, n) == {[peticion |-> p, hoja |-> nombre, k |-> i] : i \in 1..n}
\* what reading a sheet of a file gives: the number of its records, or
\* SinLectura when the file cannot be opened, the sheet is not there or the
\* extractor raises
SinLectura == -1
\* ... or SinCierre when the extractor raises with the workbook left open
SinCierre == -2
lectura(f, nombre) ==
    IF ~f.legible \/ ~\E i \in 1..Len(f.hojas) : f.hojas[i].nombre = nombre
    THEN SinLectura
    ELSE f.hojas[CHOOSE i \in 1..Len(f.hojas) : f.hojas[i].nombre = nombre].n
nombres_de(f) == [i \in 1..Len(f.hojas) |-> f.hojas[i].nombre]

\* app.py:403: collection_name of a sheet of an execution file
coleccion_fpi(nombre) == PREFIJO_FPI \o normalize_collection_name(nombre)
\* app.py:474, 499: collection_name of the sheet at position k of upload_metas
coleccion_metas(k) == IF k = 1 THEN METAS_FPI_CENTROS ELSE METAS_FPI_REGIONAL

\* app.py:370, 458: file_id, the second of the clock and the declared name
nuevo_file_id(t, filename) == <<t, filename>>
\* app.py:374-375, 462-463: the file is written at UPLOAD_DIR / file_id, over
\* the file that is there if there is one
escribir(d, id, f) == (id :> f) @@ d
\* os.remove(file_path)
os_remove(d, id) == [i \in (DOMAIN d) \ {id} |-> d[i]]
\* app.py:385-390: the entry of the registry; uploaded_at is a later reading of
\* the clock in microseconds, which tells the requests apart
entrada_registro(id, f, p) ==
    [path |-> id, original_name |-> f.filename,
     sheets |-> get_sheet_names(nombres_de(f), TRUE), uploaded_at |-> p]

\* app.py:423-434: the response of upload_file; mongodb_collections is part of
\* it when it is not empty
respuesta_upload(id, filename, sheet_list, mc) ==
    IF mc = <<>>
    THEN [status |-> 200, file_id |-> id, original_name |-> filename, sheets |-> sheet_list]
    ELSE [status |-> 200, file_id |-> id, original_name |-> filename, sheets |-> sheet_list,
          mongodb_collections |-> mc]

\* inputs
F_FPI == <<"E","j","e","c","u","c","i","o'","n"," ","F","P","I"," ","2","0","2","5",".","x","l","s","b">>
F_DATOS == <<"d","a","t","o","s",".","x","l","s","b">>
F_CSV == <<"d","a","t","o","s",".","c","s","v">>
F_METAS == <<"S","e","g","u","i","m","i","e","n","t","o"," ","M","e","t","a","s"," ","S","E","N","A",".","x","l","s","x">>
F_METAS_XLSB == <<"S","e","g","u","i","m","i","e","n","t","o"," ","M","e","t","a","s"," ","S","E","N","A",".","x","l","s","b">>
F_OTRO == <<"m","e","t","a","s",".","x","l","s","x">>
N_HOJA_1 == <<"H","o","j","a"," ","1">>
N_HOJA_1_MIN == <<"h","o","j","a","_","1">>
N_SQL_BASE == <<"S","Q","L"," ","b","a","s","e">>
Hoja(nombre, n) == [nombre |-> nombre, n |-> n]
HojasFpi == {
    <<Hoja(N_HOJA_1, SinLectura)>>,
    <<Hoja(N_HOJA_1, 0)>>,
    <<Hoja(N_HOJA_1, MaxRegistros)>>,
    <<Hoja(N_HOJA_1, MaxRegistros), Hoja(N_HOJA_1_MIN, MaxRegistros)>>,
    <<Hoja(N_HOJA_1, SinLectura), Hoja(N_DATOS, MaxRegistros)>>,
    <<Hoja(N_SQL_BASE, MaxRegistros), Hoja(N_DATOS, MaxRegistros)>>
}
ArchivosUpload ==
    {[filename |-> F_FPI, legible |-> TRUE, hojas |-> hs] : hs \in HojasFpi}
    \cup {[filename |-> F_DATOS, legible |-> TRUE, hojas |-> <<Hoja(N_HOJA_1, 1)>>],
          [filename |-> F_FPI, legible |-> FALSE, hojas |-> <<>>],
          [filename |-> F_CSV, legible |-> FALSE, hojas |-> <<>>]}
\* openpyxl does not open an .xlsb file
ArchivosMetas ==
    {[filename |-> F_METAS, legible |-> TRUE,
      hojas |-> <<Hoja(HOJA_CTROS, n[1]), Hoja(HOJA_REGIONAL, n[2])>>] :
        n \in {<<MaxRegistros, MaxRegistros>>, <<SinLectura, MaxRegistros>>,
               <<MaxRegistros, SinLectura>>, <<0, MaxRegistros>>, <<MaxRegistros, 0>>}}
    \cup {[filename |-> F_METAS, legible |-> TRUE,
           hojas |-> <<Hoja(HOJA_CTROS, SinCierre), Hoja(HOJA_REGIONAL, MaxRegistros)>>],
          [filename |-> F_METAS, legible |-> TRUE,
           hojas |-> <<Hoja(HOJA_CTROS, MaxRegistros), Hoja(HOJA_REGIONAL, SinCierre)>>]}
    \cup {[filename |-> F_METAS, legible |-> TRUE,
           hojas |-> <<Hoja(HOJA_REGIONAL, MaxRegistros)>>],
          [filename |-> F_METAS_XLSB, legible |-> FALSE, hojas |-> <<>>],
          [filename |-> F_OTRO, legible |-> TRUE, hojas |-> <<Hoja(HOJA_CTROS, 1)>>],
          [filename |-> F_CSV, legible |-> FALSE, hojas |-> <<>>]}

InitSync ==
    /\ SyncIdle
    /\ PagIdle
    /\ MetasIdle
    /\ XlsbIdle
    /\ TextoIdle

\* the entry of oplog for a write of the request under way
Op(op, collection_name, nombre) ==
    [op |-> op, collection_name |-> collection_name, sheet_name |-> nombre,
     peticion |-> peticiones]

\* a request arrives: the server is idle, the clock is read (second 0 is the
\* second of the first request); the locals of the handler that ran before
\* are gone
Llega(f, t) ==
    /\ hpc = "idle"
    /\ peticiones < MaxPeticiones
    /\ t \in (IF peticiones = 0 THEN {reloj} ELSE {reloj, reloj + 1})
    /\ peticiones' = peticiones + 1
    /\ reloj' = t
    /\ archivo' = f
    /\ oplog' = <<>>
    /\ pedido' = <<>>
    /\ UNCHANGED fuera_de_sync

\* app.py:366-367: upload_file refuses a name that does not end in .xlsb
UploadFileRejected ==
    /\ hpc = "idle"
    /\ \E f \in ArchivosUpload, t \in 0..MaxPeticiones :
        /\ Llega(f, t)
        /\ ~EndsWith(f.filename, EXT_XLSB)
        /\ respuesta' = [status |-> 400]
        /\ file_id' = <<>>
        /\ hojas' = <<>>
        /\ sheet_k' = 0
        /\ mongodb_collections' = <<>>
        /\ UNCHANGED <<salida, abiertos, db, uploaded_files, disco, hpc>>

\* app.py:370-382: the file is written, get_sheet_names raises, the file is removed
UploadFileUnreadable ==
    /\ hpc = "idle"
    /\ \E f \in ArchivosUpload, t \in 0..MaxPeticiones :
        /\ Llega(f, t)
        /\ EndsWith(f.filename, EXT_XLSB)
        /\ ~f.legible
        /\ file_id' = nuevo_file_id(t, f.filename)
        /\ disco' = os_remove(disco, nuevo_file_id(t, f.filename))
        /\ respuesta' = [status |-> 400]
        /\ hojas' = <<>>
        /\ sheet_k' = 0
        /\ mongodb_collections' = <<>>
        /\ UNCHANGED <<salida, abiertos, db, uploaded_files, hpc>>

\* app.py:370-394, 423-434: the file is written and registered; its name is not
\* that of an execution file, the response follows
UploadFilePlain ==
    /\ hpc = "idle"
    /\ \E f \in ArchivosUpload, t \in 0..MaxPeticiones :
        /\ Llega(f, t)
        /\ EndsWith(f.filename, EXT_XLSB)
        /\ f.legible
        /\ ~is_ejecucion_fpi_file(f.filename)
        /\ file_id' = nuevo_file_id(t, f.filename)
        /\ disco' = escribir(disco, nuevo_file_id(t, f.filename), f)
        /\ uploaded_files' =
            (nuevo_file_id(t, f.filename) :>
                entrada_registro(nuevo_file_id(t, f.filename), f, peticiones + 1))
            @@ uploaded_files
        /\ hojas' = get_sheet_names(nombres_de(f), TRUE)
        /\ mongodb_collections' = <<>>
        /\ respuesta' = respuesta_upload(nuevo_file_id(t, f.filename), f.filename,
                                          get_sheet_names(nombres_de(f), TRUE), <<>>)
        /\ sheet_k' = 0
        /\ UNCHANGED <<salida, abiertos, db, hpc>>

\* app.py:370-397: the file is written and registered; its name is that of an
\* execution file, the loop over its sheets begins
UploadFileFpi ==
    /\ hpc = "idle"
    /\ \E f \in ArchivosUpload, t \in 0..MaxPeticiones :
        /\ Llega(f, t)
        /\ EndsWith(f.filename, EXT_XLSB)
        /\ f.legible
        /\ is_ejecucion_fpi_file(f.filename)
        /\ file_id' = nuevo_file_id(t, f.filename)
        /\ disco' = escribir(disco, nuevo_file_id(t, f.filename), f)
        /\ uploaded_files' =
            (nuevo_file_id(t, f.filename) :>
                entrada_registro(nuevo_file_id(t, f.filename), f, peticiones + 1))
            @@ uploaded_files
        /\ hojas' = get_sheet_names(nombres_de(f), TRUE)
        /\ sheet_k' = 1
        /\ mongodb_collections' = <<>>
        /\ hpc' = "fpi_loop"
        /\ UNCHANGED <<salida, abiertos, db, respuesta>>

\* the entry upload_file adds when the try block raises (app.py:417-421)
error_fpi == [error |-> "Error al guardar en MongoDB"]

\* app.py:399, 417-421: read_xlsb_sheet raises, the loop is abandoned
FpiReadFails ==
    /\ hpc = "fpi_loop"
    /\ sheet_k <= Len(hojas)
    /\ lectura(archivo, hojas[sheet_k]) = SinLectura
    /\ mongodb_collections' = Append(mongodb_collections, error_fpi)
    /\ hpc' = "fpi_respond"
    /\ UNCHANGED <<pedido, salida, abiertos, db, oplog, peticiones, reloj, uploaded_files, disco, archivo, file_id,
                   hojas, sheet_k, respuesta>>
    /\ UNCHANGED fuera_de_sync

\* app.py:399-401: the sheet gives no record, nothing is written for it
FpiSkipEmpty ==
    /\ hpc = "fpi_loop"
    /\ sheet_k <= Len(hojas)
    /\ lectura(archivo, hojas[sheet_k]) = 0
    /\ sheet_k' = sheet_k + 1
    /\ UNCHANGED <<pedido, salida, abiertos, db, oplog, peticiones, reloj, uploaded_files, disco, archivo, file_id,
                   hpc, hojas, mongodb_collections, respuesta>>
    /\ UNCHANGED fuera_de_sync

\* app.py:399-407: the sheet gives records, its collection is emptied
FpiDelete ==
    /\ hpc = "fpi_loop"
    /\ sheet_k <= Len(hojas)
    /\ lectura(archivo, hojas[sheet_k]) > 0
    /\ db' = delete_many(db, coleccion_fpi(hojas[sheet_k]))
    /\ oplog' = Append(oplog, Op("delete_many", coleccion_fpi(hojas[sheet_k]), hojas[sheet_k]))
    /\ hpc' = "fpi_insert"
    /\ UNCHANGED <<pedido, salida, abiertos, peticiones, reloj, uploaded_files, disco, archivo, file_id,
                   hojas, sheet_k, mongodb_collections, respuesta>>
    /\ UNCHANGED fuera_de_sync

\* app.py:407, 417-421: delete_many raises, the loop is abandoned
FpiDeleteFails ==
    /\ hpc = "fpi_loop"
    /\ sheet_k <= Len(hojas)
    /\ lectura(archivo, hojas[sheet_k]) > 0
    /\ mongodb_collections' = Append(mongodb_collections, error_fpi)
    /\ hpc' = "fpi_respond"
    /\ UNCHANGED <<pedido, salida, abiertos, db, oplog, peticiones, reloj, uploaded_files, disco, archivo, file_id,
                   hojas, sheet_k, respuesta>>
    /\ UNCHANGED fuera_de_sync

\* app.py:410-416: the records are inserted, the sheet is reported
FpiInsert ==
    /\ hpc = "fpi_insert"
    /\ LET n == lectura(archivo, hojas[sheet_k])
           collection_name == coleccion_fpi(hojas[sheet_k])
       IN /\ db' = insert_many(db, collection_name,
                               Registros(peticiones, hojas[sheet_k], n))
          /\ oplog' = Append(oplog, Op("insert_many", collection_name, hojas[sheet_k]))
          /\ mongodb_collections' =
                Append(mongodb_collections,
                       [sheet_name |-> hojas[sheet_k], collection_name |-> collection_name,
                        records_inserted |-> n])
    /\ sheet_k' = sheet_k + 1
    /\ hpc' = "fpi_loop"
    /\ UNCHANGED <<pedido, salida, abiertos, peticiones, reloj, uploaded_files, disco, archivo, file_id,
                   hojas, respuesta>>
    /\ UNCHANGED fuera_de_sync

\* app.py:410, 417-421: insert_many raises after it inserted m of the records,
\* the loop is abandoned
FpiInsertFails ==
    /\ hpc = "fpi_insert"
    /\ \E m \in 0..(lectura(archivo, hojas[sheet_k]) - 1) :
        /\ db' = insert_many(db, coleccion_fpi(hojas[sheet_k]),
                             Registros(peticiones, hojas[sheet_k], m))
        /\ oplog' = Append(oplog, Op("insert_many raised", coleccion_fpi(hojas[sheet_k]), hojas[sheet_k]))
    /\ mongodb_collections' = Append(mongodb_collections, error_fpi)
    /\ hpc' = "fpi_respond"
    /\ UNCHANGED <<pedido, salida, abiertos, peticiones, reloj, uploaded_files, disco, archivo, file_id,
                   hojas, sheet_k, respuesta>>
    /\ UNCHANGED fuera_de_sync

\* FpiRespond failing the request when the try block raised
FpiRespond_falla ==
    /\ \/ (hpc = "fpi_loop" /\ sheet_k > Len(hojas))
       \/ hpc = "fpi_respond"
    /\ respuesta' = IF hpc = "fpi_respond"
                    THEN [status |-> 500]
                    ELSE respuesta_upload(file_id, archivo.filename, hojas, mongodb_collections)
    /\ hpc' = "idle"
    /\ UNCHANGED <<pedido, salida, abiertos, db, oplog, peticiones, reloj, uploaded_files, disco, archivo, file_id,
                   hojas, sheet_k, mongodb_collections>>
    /\ UNCHANGED fuera_de_sync

\* app.py:423-434: the loop ended or was abandoned, the response is returned
FpiRespond ==
    /\ \/ (hpc = "fpi_loop" /\ sheet_k > Len(hojas))
       \/ hpc = "fpi_respond"
    /\ respuesta' = respuesta_upload(file_id, archivo.filename, hojas, mongodb_collections)
    /\ hpc' = "idle"
    /\ UNCHANGED <<pedido, salida, abiertos, db, oplog, peticiones, reloj, uploaded_files, disco, archivo, file_id,
                   hojas, sheet_k, mongodb_collections>>
    /\ UNCHANGED fuera_de_sync

\* app.py:394-396, 417-421: get_database raises, no sheet is read (sheet_k = 0:
\* the loop was not entered)
FpiNoDatabase ==
    /\ hpc = "fpi_loop"
    /\ sheet_k = 1
    /\ mongodb_collections = <<>>
    /\ oplog = <<>>
    /\ mongodb_collections' = <<error_fpi>>
    /\ sheet_k' = 0
    /\ hpc' = "fpi_respond"
    /\ UNCHANGED <<pedido, salida, abiertos, db, oplog, peticiones, reloj, uploaded_files, disco, archivo, file_id,
                   hojas, respuesta>>
    /\ UNCHANGED fuera_de_sync

\* app.py:448-449: upload_metas refuses a name that ends in neither .xlsx nor .xlsb
UploadMetasRejectedExt ==
    /\ hpc = "idle"
    /\ \E f \in ArchivosMetas, t \in 0..MaxPeticiones :
        /\ Llega(f, t)
        /\ ~(EndsWith(f.filename, EXT_XLSX) \/ EndsWith(f.filename, EXT_XLSB))
        /\ respuesta' = [status |-> 400]
        /\ file_id' = <<>>
        /\ hojas' = <<>>
        /\ sheet_k' = 0
        /\ mongodb_collections' = <<>>
        /\ UNCHANGED <<salida, abiertos, db, uploaded_files, disco, hpc>>

\* app.py:451-455: upload_metas refuses a name that is not that of a goals file
UploadMetasRejectedName ==
    /\ hpc = "idle"
    /\ \E f \in ArchivosMetas, t \in 0..MaxPeticiones :
        /\ Llega(f, t)
        /\ EndsWith(f.filename, EXT_XLSX) \/ EndsWith(f.filename, EXT_XLSB)
        /\ ~is_metas_file(f.filename)
        /\ respuesta' = [status |-> 400]
        /\ file_id' = <<>>
        /\ hojas' = <<>>
        /\ sheet_k' = 0
        /\ mongodb_collections' = <<>>
        /\ UNCHANGED <<salida, abiertos, db, uploaded_files, disco, hpc>>

\* app.py:458-467: the file is written, the two sheets are to be processed
UploadMetasStart ==
    /\ hpc = "idle"
    /\ \E f \in ArchivosMetas, t \in 0..MaxPeticiones :
        /\ Llega(f, t)
        /\ EndsWith(f.filename, EXT_XLSX) \/ EndsWith(f.filename, EXT_XLSB)
        /\ is_metas_file(f.filename)
        /\ file_id' = nuevo_file_id(t, f.filename)
        /\ disco' = escribir(disco, nuevo_file_id(t, f.filename), f)
        /\ hojas' = <<HOJA_CTROS, HOJA_REGIONAL>>
        /\ sheet_k' = 1
        /\ mongodb_collections' = <<>>
        /\ hpc' = "metas_sheet"
        /\ UNCHANGED <<salida, abiertos, db, uploaded_files, respuesta>>

\* app.py:458-466, 534-538: the file is written, get_database raises, the file
\* is removed and the request fails
UploadMetasNoDatabase ==
    /\ hpc = "idle"
    /\ \E f \in ArchivosMetas, t \in 0..MaxPeticiones :
        /\ Llega(f, t)
        /\ EndsWith(f.filename, EXT_XLSX) \/ EndsWith(f.filename, EXT_XLSB)
        /\ is_metas_file(f.filename)
        /\ file_id' = nuevo_file_id(t, f.filename)
        /\ disco' = os_remove(disco, nuevo_file_id(t, f.filename))
        /\ respuesta' = [status |-> 500]
        /\ hojas' = <<>>
        /\ sheet_k' = 0
        /\ mongodb_collections' = <<>>
        /\ UNCHANGED <<salida, abiertos, db, uploaded_files, hpc>>

\* the entry upload_metas adds when the try block of a sheet raises
\* (app.py:488-492, 513-517)
error_metas(nombre) == [sheet_name |-> nombre, error |-> "Error al procesar"]

\* app.py:471, 496, 488-492, 513-517: read_xlsx_sheet_metas raises
MetasReadFails ==
    /\ hpc = "metas_sheet"
    /\ sheet_k <= Len(hojas)
    /\ lectura(archivo, hojas[sheet_k]) = SinLectura
    /\ mongodb_collections' = Append(mongodb_collections, error_metas(hojas[sheet_k]))
    /\ sheet_k' = sheet_k + 1
    /\ UNCHANGED <<pedido, salida, abiertos, db, oplog, peticiones, reloj, uploaded_files, disco, archivo, file_id,
                   hpc, hojas, respuesta>>
    /\ UNCHANGED fuera_de_sync

\* app.py:190, 471, 496, 488-492, 513-517: read_xlsx_sheet_metas raises outside
\* its two checks, the workbook it opened stays open
MetasReadFailsOpen ==
    /\ hpc = "metas_sheet"
    /\ sheet_k <= Len(hojas)
    /\ lectura(archivo, hojas[sheet_k]) = SinCierre
    /\ mongodb_collections' = Append(mongodb_collections, error_metas(hojas[sheet_k]))
    /\ abiertos' = abiertos \cup {file_id}
    /\ sheet_k' = sheet_k + 1
    /\ UNCHANGED <<pedido, salida, db, oplog, peticiones, reloj, uploaded_files, disco, archivo, file_id,
                   hpc, hojas, respuesta>>
    /\ UNCHANGED fuera_de_sync

\* app.py:471-473, 496-498: the sheet gives no record, nothing is written for it
MetasSkipEmpty ==
    /\ hpc = "metas_sheet"
    /\ sheet_k <= Len(hojas)
    /\ lectura(archivo, hojas[sheet_k]) = 0
    /\ sheet_k' = sheet_k + 1
    /\ UNCHANGED <<pedido, salida, abiertos, db, oplog, peticiones, reloj, uploaded_files, disco, archivo, file_id,
                   hpc, hojas, mongodb_collections, respuesta>>
    /\ UNCHANGED fuera_de_sync

\* app.py:471-478, 496-503: the sheet gives records, its collection is emptied
MetasDelete ==
    /\ hpc = "metas_sheet"
    /\ sheet_k <= Len(hojas)
    /\ lectura(archivo, hojas[sheet_k]) > 0
    /\ db' = delete_many(db, coleccion_metas(sheet_k))
    /\ oplog' = Append(oplog, Op("delete_many", coleccion_metas(sheet_k), hojas[sheet_k]))
    /\ hpc' = "metas_insert"
    /\ UNCHANGED <<pedido, salida, abiertos, peticiones, reloj, uploaded_files, disco, archivo, file_id,
                   hojas, sheet_k, mongodb_collections, respuesta>>
    /\ UNCHANGED fuera_de_sync

\* app.py:478, 503, 488-492, 513-517: delete_many raises
MetasDeleteFails ==
    /\ hpc = "metas_sheet"
    /\ sheet_k <= Len(hojas)
    /\ lectura(archivo, hojas[sheet_k]) > 0
    /\ mongodb_collections' = Append(mongodb_collections, error_metas(hojas[sheet_k]))
    /\ sheet_k' = sheet_k + 1
    /\ UNCHANGED <<pedido, salida, abiertos, db, oplog, peticiones, reloj, uploaded_files, disco, archivo, file_id,
                   hpc, hojas, respuesta>>
    /\ UNCHANGED fuera_de_sync

\* app.py:481-487, 506-512: the records are inserted, the sheet is reported
MetasInsert ==
    /\ hpc = "metas_insert"
    /\ LET n == lectura(archivo, hojas[sheet_k])
           collection_name == coleccion_metas(sheet_k)
       IN /\ db' = insert_many(db, collection_name,
                               Registros(peticiones, hojas[sheet_k], n))
          /\ oplog' = Append(oplog, Op("insert_many", collection_name, hojas[sheet_k]))
          /\ mongodb_collections' =
                Append(mongodb_collections,
                       [sheet_name |-> hojas[sheet_k], collection_name |-> collection_name,
                        records_inserted |-> n])
    /\ sheet_k' = sheet_k + 1
    /\ hpc' = "metas_sheet"
    /\ UNCHANGED <<pedido, salida, abiertos, peticiones, reloj, uploaded_files, disco, archivo, file_id,
                   hojas, respuesta>>
    /\ UNCHANGED fuera_de_sync

\* app.py:481, 506, 488-492, 513-517: insert_many raises after it inserted m of
\* the records
MetasInsertFails ==
    /\ hpc = "metas_insert"
    /\ \E m \in 0..(lectura(archivo, hojas[sheet_k]) - 1) :
        /\ db' = insert_many(db, coleccion_metas(sheet_k),
                             Registros(peticiones, hojas[sheet_k], m))
        /\ oplog' = Append(oplog, Op("insert_many raised", coleccion_metas(sheet_k),
                                     hojas[sheet_k]))
    /\ mongodb_collections' = Append(mongodb_collections, error_metas(hojas[sheet_k]))
    /\ sheet_k' = sheet_k + 1
    /\ hpc' = "metas_sheet"
    /\ UNCHANGED <<pedido, salida, abiertos, peticiones, reloj, uploaded_files, disco, archivo, file_id,
                   hojas, respuesta>>
    /\ UNCHANGED fuera_de_sync

\* app.py:522-523: 'collection_name' in c, 'error' in c
con_coleccion(c) == "collection_name" \in DOMAIN c
con_error(c) == "error" \in DOMAIN c

\* app.py:519-532: both sheets were processed, the file is removed and the
\* response returned
MetasRespond ==
    /\ hpc = "metas_sheet"
    /\ sheet_k > Len(hojas)
    /\ disco' = os_remove(disco, file_id)
    /\ abiertos' = abiertos \ {file_id}
    /\ respuesta' = [status |-> 200, file_name |-> archivo.filename,
                     collections_processed |-> Len(SelectSeq(mongodb_collections, con_coleccion)),
                     errors |-> Len(SelectSeq(mongodb_collections, con_error)),
                     details |-> mongodb_collections]
    /\ hpc' = "idle"
    /\ UNCHANGED <<pedido, salida, db, oplog, peticiones, reloj, uploaded_files, archivo, file_id,
                   hojas, sheet_k, mongodb_collections>>
    /\ UNCHANGED fuera_de_sync

\* app.py:520, 534-538: a workbook is still open on the file and the system
\* refuses to remove a file in use; os.remove raises, raises again in the
\* handler of the outer try, and the request ends with that error
MetasRemoveFails ==
    /\ hpc = "metas_sheet"
    /\ sheet_k > Len(hojas)
    /\ file_id \in abiertos
    /\ respuesta' = [status |-> 500]
    /\ hpc' = "idle"
    /\ UNCHANGED <<pedido, salida, abiertos, db, oplog, peticiones, reloj, uploaded_files, disco, archivo,
                   file_id, hojas, sheet_k, mongodb_collections>>
    /\ UNCHANGED fuera_de_sync

\* app.py:978-999: delete_collection drops a collection that exists
DeleteCollection ==
    /\ hpc = "idle"
    /\ peticiones < MaxPeticiones
    /\ peticiones' = peticiones + 1
    /\ \E collection_name \in DOMAIN db :
        /\ db' = drop(db, collection_name)
        /\ oplog' = <<Op("drop", collection_name, <<>>)>>
    /\ respuesta' = [status |-> 200]
    /\ pedido' = <<>>
    /\ file_id' = <<>>
    /\ hojas' = <<>>
    /\ sheet_k' = 0
    /\ mongodb_collections' = <<>>
    /\ UNCHANGED <<salida, abiertos, reloj, uploaded_files, disco, archivo, hpc>>
    /\ UNCHANGED fuera_de_sync

NextSync ==
    \/ UploadFileRejected
    \/ UploadFileUnreadable
    \/ UploadFilePlain
    \/ UploadFileFpi
    \/ FpiNoDatabase
    \/ FpiReadFails
    \/ FpiSkipEmpty
    \/ FpiDelete
    \/ FpiDeleteFails
    \/ FpiInsert
    \/ FpiInsertFails
    \/ FpiRespond
    \/ UploadMetasRejectedExt
    \/ UploadMetasRejectedName
    \/ UploadMetasStart
    \/ UploadMetasNoDatabase
    \/ MetasReadFails
    \/ MetasReadFailsOpen
    \/ MetasSkipEmpty
    \/ MetasDelete
    \/ MetasDeleteFails
    \/ MetasInsert
    \/ MetasInsertFails
    \/ MetasRespond
    \/ MetasRemoveFails
    \/ DeleteCollection

SpecSync == InitSync /\ [][NextSync]_vars

-----------------------------------------------------------------------------
\* The pagination of get_sheet_data (app.py:599-614)

\* most records the sheet gives
MaxTotal == 3

Menor(a, b) == IF a <= b THEN a ELSE b
Mayor(a, b) == IF a >= b THEN a ELSE b
\* data[offset:]: a negative index counts from the end of the list
desde(d, off) ==
    IF off >= 0 THEN SubSeq(d, off + 1, Len(d))
    ELSE SubSeq(d, Mayor(Len(d) + off, 0) + 1, Len(d))
\* data[:limit]
hasta(d, lim) ==
    IF lim >= 0 THEN SubSeq(d, 1, Menor(lim, Len(d)))
    ELSE SubSeq(d, 1, Mayor(Len(d) + lim, 0))
\* app.py:601-604: 'if offset:' and 'if limit:' are false for 0, and for None
paginar(d, lim, off) ==
    LET d1 == IF off # 0 THEN desde(d, off) ELSE d
    IN IF lim # None /\ lim.v # 0 THEN hasta(d1, lim.v) ELSE d1

\* inputs: the records are told apart by their position in the sheet
Limites == {None} \cup {IntCell(i) : i \in (-1)..(MaxTotal + 1)}
Offsets == (-1)..(MaxTotal + 1)

InitPag ==
    /\ \E n \in 0..MaxTotal : extraidos = [i \in 1..n |-> i]
    /\ limit \in Limites
    /\ offset \in Offsets
    /\ ppc = "call"
    /\ total = 0
    /\ pagina = <<>>
    /\ MetasIdle
    /\ XlsbIdle
    /\ TextoIdle
    /\ SyncIdle

\* app.py:600-614: total is taken, data is cut, the response is built
Paginate ==
    /\ ppc = "call"
    /\ total' = Len(extraidos)
    /\ pagina' = paginar(extraidos, limit, offset)
    /\ ppc' = "done"
    /\ UNCHANGED <<extraidos, limit, offset>>
    /\ UNCHANGED fuera_de_pag

NextPag == Paginate
SpecPag == InitPag /\ [][NextPag]_vars

-----------------------------------------------------------------------------
\* The registry uploaded_files and the endpoints that read it (app.py:541-714)

JSON == <<".","j","s","o","n">>
\* Path(name).stem: the name without its last suffix
UltimoPunto(name) ==
    IF \E i \in 1..Len(name) : name[i] = "."
    THEN CHOOSE i \in 1..Len(name) :
            name[i] = "." /\ \A j \in (i + 1)..Len(name) : name[j] # "."
    ELSE 0
stem(name) ==
    IF UltimoPunto(name) > 1 /\ UltimoPunto(name) < Len(name)
    THEN SubSeq(name, 1, UltimoPunto(name) - 1)
    ELSE name
\* app.py:649: f"{base_name}_{sheet_name}.json"
nombre_json(base_name, nombre) == base_name \o <<"_">> \o nombre \o JSON

\* read_xlsb_sheet(path, sheet_name) on the upload directory: the number of
\* records, SinLectura when the file is not there or the read raises
leer(path, nombre) ==
    IF path \in DOMAIN disco THEN lectura(disco[path], nombre) ELSE SinLectura
\* the records of a sheet, each told apart by the sheet it is read from
Datos(nombre, n) == [i \in 1..n |-> [hoja |-> nombre, k |-> i]]

\* inputs: the file_ids, sheet names, limits and offsets of the requests
ID_AUSENTE == nuevo_file_id(0, F_CSV)
IdsPedidos == (DOMAIN uploaded_files) \cup {ID_AUSENTE, nuevo_file_id(0, F_DATOS)}
HojasPedidas == {N_HOJA_1, N_SQL_BASE, N_DATOS}
LimitesPedidos == {None, IntCell(1)}
OffsetsPedidos == {0, 1}

\* a read or delete request arrives with the parameters p: the server is idle,
\* the locals of the handler that ran before are gone
Pide(p) ==
    /\ hpc = "idle"
    /\ peticiones < MaxPeticiones
    /\ peticiones' = peticiones + 1
    /\ pedido' = p
    /\ oplog' = <<>>
    /\ file_id' = <<>>
    /\ hojas' = <<>>
    /\ sheet_k' = 0
    /\ mongodb_collections' = <<>>
    /\ UNCHANGED <<db, reloj, archivo, hpc, abiertos>>
    /\ UNCHANGED fuera_de_sync

\* app.py:541-554: list_files
ListFiles ==
    /\ Pide([endpoint |-> "list_files"])
    /\ respuesta' = [status |-> 200,
                     files |-> {[file_id |-> id,
                                 original_name |-> uploaded_files[id].original_name,
                                 sheets |-> uploaded_files[id].sheets,
                                 uploaded_at |-> uploaded_files[id].uploaded_at] :
                                    id \in DOMAIN uploaded_files}]
    /\ UNCHANGED <<uploaded_files, disco, salida>>

\* app.py:565-566: get_sheets of a file_id that is not registered
GetSheetsNotFound ==
    /\ hpc = "idle"
    /\ \E id \in IdsPedidos :
        /\ Pide([endpoint |-> "get_sheets", file_id |-> id])
        /\ id \notin DOMAIN uploaded_files
        /\ respuesta' = [status |-> 404]
    /\ UNCHANGED <<uploaded_files, disco, salida>>

\* app.py:568-571: get_sheets answers with the sheet list of the registry
GetSheets ==
    /\ hpc = "idle"
    /\ \E id \in IdsPedidos :
        /\ Pide([endpoint |-> "get_sheets", file_id |-> id])
        /\ id \in DOMAIN uploaded_files
        /\ respuesta' = [status |-> 200, file_id |-> id,
                         sheets |-> uploaded_files[id].sheets]
    /\ UNCHANGED <<uploaded_files, disco, salida>>

\* the parameters of a get_sheet_data request
PedidoDatos(id, nombre, lim, off) ==
    [endpoint |-> "get_sheet_data", file_id |-> id, sheet_name |-> nombre,
     limit |-> lim, offset |-> off]

\* app.py:590-594: get_sheet_data of a file_id that is not registered, or of a
\* sheet name that is not in the sheet list of the registry
GetSheetDataNotFound ==
    /\ hpc = "idle"
    /\ \E id \in IdsPedidos, nombre \in HojasPedidas,
          lim \in LimitesPedidos, off \in OffsetsPedidos :
        /\ Pide(PedidoDatos(id, nombre, lim, off))
        /\ \/ id \notin DOMAIN uploaded_files
           \/ (id \in DOMAIN uploaded_files
               /\ nombre \notin Range(uploaded_files[id].sheets))
        /\ respuesta' = [status |-> 404]
    /\ UNCHANGED <<uploaded_files, disco, salida>>

\* get_sheet_data reading whatever sheet of the stored file is asked for
GetSheetData_cualquier_hoja ==
    /\ hpc = "idle"
    /\ \E id \in IdsPedidos, nombre \in HojasPedidas,
          lim \in LimitesPedidos, off \in OffsetsPedidos :
        /\ Pide(PedidoDatos(id, nombre, lim, off))
        /\ id \in DOMAIN uploaded_files
        /\ leer(uploaded_files[id].path, nombre) # SinLectura
        /\ LET leidos == Datos(nombre, leer(uploaded_files[id].path, nombre))
           IN respuesta' = [status |-> 200, file_id |-> id, sheet_name |-> nombre,
                            total_records |-> Len(leidos),
                            returned_records |-> Len(paginar(leidos, lim, off)),
                            offset |-> off, limit |-> lim,
                            data |-> paginar(leidos, lim, off)]
    /\ UNCHANGED <<uploaded_files, disco, salida>>

\* app.py:596-614: the sheet is read from the stored file and paginated
GetSheetData ==
    /\ hpc = "idle"
    /\ \E id \in IdsPedidos, nombre \in HojasPedidas,
          lim \in LimitesPedidos, off \in OffsetsPedidos :
        /\ Pide(PedidoDatos(id, nombre, lim, off))
        /\ id \in DOMAIN uploaded_files
        /\ nombre \in Range(uploaded_files[id].sheets)
        /\ leer(uploaded_files[id].path, nombre) # SinLectura
        /\ LET leidos == Datos(nombre, leer(uploaded_files[id].path, nombre))
           IN respuesta' = [status |-> 200, file_id |-> id, sheet_name |-> nombre,
                            total_records |-> Len(leidos),
                            returned_records |-> Len(paginar(leidos, lim, off)),
                            offset |-> off, limit |-> lim,
                            data |-> paginar(leidos, lim, off)]
    /\ UNCHANGED <<uploaded_files, disco, salida>>

\* app.py:596-597, 615-616: read_xlsb_sheet raises
GetSheetDataFails ==
    /\ hpc = "idle"
    /\ \E id \in IdsPedidos, nombre \in HojasPedidas,
          lim \in LimitesPedidos, off \in OffsetsPedidos :
        /\ Pide(PedidoDatos(id, nombre, lim, off))
        /\ id \in DOMAIN uploaded_files
        /\ nombre \in Range(uploaded_files[id].sheets)
        /\ leer(uploaded_files[id].path, nombre) = SinLectura
        /\ respuesta' = [status |-> 500]
    /\ UNCHANGED <<uploaded_files, disco, salida>>

\* app.py:630-631: export_all_sheets of a file_id that is not registered
ExportAllSheetsNotFound ==
    /\ hpc = "idle"
    /\ \E id \in IdsPedidos :
        /\ Pide([endpoint |-> "export_all_sheets", file_id |-> id])
        /\ id \notin DOMAIN uploaded_files
        /\ respuesta' = [status |-> 404]
    /\ UNCHANGED <<uploaded_files, disco, salida>>

\* app.py:637-666: the entry of exported_files for one sheet of the list
exportado(file_info, nombre) ==
    IF leer(file_info.path, nombre) = SinLectura
    THEN [sheet_name |-> nombre, error |-> "error"]
    ELSE [sheet_name |-> nombre,
          filename |-> nombre_json(stem(file_info.original_name), nombre),
          records |-> leer(file_info.path, nombre)]
\* app.py:641-653: the files written to OUTPUT_DIR, a later one over an earlier
\* one of the same name
RECURSIVE exportar(_, _, _)
exportar(out, file_info, k) ==
    IF k > Len(file_info.sheets) THEN out
    ELSE LET nombre == file_info.sheets[k]
             n == leer(file_info.path, nombre)
         IN exportar(IF n = SinLectura THEN out
                     ELSE (nombre_json(stem(file_info.original_name), nombre) :>
                            [sheet_name |-> nombre, total_records |-> n,
                             data |-> Datos(nombre, n)]) @@ out,
                     file_info, k + 1)

\* app.py:633-671: every sheet of the list is read and written to OUTPUT_DIR
ExportAllSheets ==
    /\ hpc = "idle"
    /\ \E id \in IdsPedidos :
        /\ Pide([endpoint |-> "export_all_sheets", file_id |-> id])
        /\ id \in DOMAIN uploaded_files
        /\ salida' = exportar(salida, uploaded_files[id], 1)
        /\ respuesta' = [status |-> 200, file_id |-> id,
                         exported_files |->
                            [k \in 1..Len(uploaded_files[id].sheets) |->
                                exportado(uploaded_files[id], uploaded_files[id].sheets[k])]]
    /\ UNCHANGED <<uploaded_files, disco>>

\* app.py:702-703: delete_file of a file_id that is not registered
DeleteFileNotFound ==
    /\ hpc = "idle"
    /\ \E id \in IdsPedidos :
        /\ Pide([endpoint |-> "delete_file", file_id |-> id])
        /\ id \notin DOMAIN uploaded_files
        /\ respuesta' = [status |-> 404]
    /\ UNCHANGED <<uploaded_files, disco, salida>>

\* app.py:705-714: the stored file is removed if it is there, the entry deleted
DeleteFile ==
    /\ hpc = "idle"
    /\ \E id \in IdsPedidos :
        /\ Pide([endpoint |-> "delete_file", file_id |-> id])
        /\ id \in DOMAIN uploaded_files
        /\ disco' = os_remove(disco, uploaded_files[id].path)
        /\ uploaded_files' = [i \in (DOMAIN uploaded_files) \ {id} |-> uploaded_files[i]]
        /\ respuesta' = [status |-> 200]
    /\ UNCHANGED salida

NextRegistro ==
    \/ UploadFileRejected
    \/ UploadFileUnreadable
    \/ UploadFilePlain
    \/ UploadFileFpi
    \/ FpiReadFails
    \/ FpiSkipEmpty
    \/ FpiDelete
    \/ FpiDeleteFails
    \/ FpiInsert
    \/ FpiInsertFails
    \/ FpiRespond
    \/ FpiNoDatabase
    \/ ListFiles
    \/ GetSheetsNotFound
    \/ GetSheets
    \/ GetSheetDataNotFound
    \/ GetSheetData
    \/ GetSheetDataFails
    \/ ExportAllSheetsNotFound
    \/ ExportAllSheets
    \/ DeleteFileNotFound
    \/ DeleteFile

SpecRegistro == InitSync /\ [][NextRegistro]_vars

-----------------------------------------------------------------------------
\* Properties

\* some cell of the row, stringified, contains 'Cupos'
ContieneCupos(row) == \E i \in 1..Len(row) : Contains(CUPOS, py_str(row[i]))
\* the rows of the scan window 1..19 that the sheet has
Ventana == {r \in 1..19 : r <= Len(ws)}
FilasConCupos == {r \in Ventana : ContieneCupos(ws[r])}
PasoElEscaneo == pc \in {"columns", "rows", "done"}

\* C1: the header row is the lowest-numbered row among rows 1..19 with a cell
\* whose stringified value contains 'Cupos' (so never row 20 or higher); a sheet
\* with such a row gets past the scan; the data rows read are header row + 1 on.
C1_HeaderIsFirstCuposRow ==
    /\ header_row_num # 0 =>
        /\ header_row_num \in FilasConCupos
        /\ \A r \in FilasConCupos : header_row_num <= r
    /\ PasoElEscaneo => header_row_num # 0
    /\ (pc = "failed" /\ sheet_name \in Range(sheetnames)) => FilasConCupos = {}
    /\ pc \in {"rows", "done"} =>
        /\ data_row \in (header_row_num + 1)..(Len(ws) + 1)
        /\ \A k \in 1..Len(origen) : origen[k] \in (header_row_num + 1)..(data_row - 1)

\* C1 witness: a header row above another 'Cupos' row of the window was chosen
\* and the row right below it gave the first record.
C1_Witness ==
    /\ pc = "done"
    /\ header_row_num >= 2
    /\ \E r \in FilasConCupos : r > header_row_num
    /\ Len(origen) >= 1
    /\ origen[1] = header_row_num + 1

CamposFijos == {K_PERIODO, K_COD_REGIONAL, K_REGIONAL, K_COD_CENTRO, K_CENTRO}
NombresDetectados == {columnas_cupos[j].nombre : j \in 1..Len(columnas_cupos)}
\* the state right after the metric columns were detected
RecienDetectadas == pc = "rows" /\ data_row = header_row_num + 1 /\ resultados = <<>>

IndicesCupos ==
    {i \in 0..(Len(fila_encabezados) - 1) :
        Contains(CUPOS, py_str(fila_encabezados[i + 1]))}

\* C4 as stated: every 'Cupos' cell of the header row is a detected metric
\* column labelled by the cell directly above it, and every record has one
\* field per such column.
C4_Original ==
    (pc \in {"rows", "done"} /\ header_row_num >= 2) =>
        /\ \A i \in IndicesCupos :
              \E j \in 1..Len(columnas_cupos) :
                  /\ columnas_cupos[j].indice = i
                  /\ columnas_cupos[j].categoria_original = celda(ws[header_row_num - 1], i)
        /\ \A k \in 1..Len(resultados) :
              Cardinality(DOMAIN resultados[k] \ CamposFijos) = Cardinality(IndicesCupos)

\* the table entries whose normalized key is a substring of the normalized text
EntradasQueCalzan(texto) ==
    LET normalizado == normalizar_texto(texto)
    IN {j \in 1..Len(mapeo_nombres) : Contains(claves_normalizadas[j], normalizado)}
Minimo(S) == CHOOSE x \in S : \A y \in S : x <= y

\* C5: the field code of a detected column is the code of the first table
\* entry, in table order, whose normalized key is a substring of the normalized
\* category, whatever later entries match.
C5_FirstMatch ==
    RecienDetectadas =>
        \A j \in 1..Len(columnas_cupos) :
            LET calzan == EntradasQueCalzan(py_str(columnas_cupos[j].categoria_original))
            IN calzan # {} =>
                 columnas_cupos[j].nombre = mapeo_nombres[Minimo(calzan)].campo

\* C5 witness: a category that two entries match, the later one first in the
\* text, resolved to the earlier entry's code.
C5_Witness ==
    /\ RecienDetectadas
    /\ \E j \in 1..Len(columnas_cupos) :
        /\ columnas_cupos[j].categoria_original = StrCell(CAT_DOS_CLAVES)
        /\ EntradasQueCalzan(CAT_DOS_CLAVES) = {8, 9}
        /\ columnas_cupos[j].nombre = mapeo_nombres[8].campo

\* C6: a 'Cupos' column whose category is a key of the table, or that key
\* spelled without accents, is detected with that key's own field code.
C6_KeysResolveToOwnCode ==
    RecienDetectadas =>
        \A i \in IndicesCupos : \A e \in 1..Len(mapeo_nombres) :
            (i < Len(fila_categorias)
             /\ fila_categorias[i + 1] \in {StrCell(mapeo_nombres[e].clave),
                                            StrCell(claves_sin_tilde[e])}) =>
                \E j \in 1..Len(columnas_cupos) :
                    /\ columnas_cupos[j].indice = i
                    /\ columnas_cupos[j].nombre = mapeo_nombres[e].campo

\* C6 witness: the category 'Tecnologos Regular - Presencial', which is not
\* the table's accented spelling, resolved to M_TEC_REG_PRE.
C6_Witness ==
    /\ RecienDetectadas
    /\ claves_sin_tilde[1] # mapeo_nombres[1].clave
    /\ \E j \in 1..Len(columnas_cupos) :
        /\ columnas_cupos[j].categoria_original = StrCell(claves_sin_tilde[1])
        /\ columnas_cupos[j].nombre = <<"M","_","T","E","C","_","R","E","G","_","P","R","E">>

\* the slug of a text: its runs of [a-z0-9], after accents are removed and
\* letters lowered, joined by single underscores
RECURSIVE UnirPalabras(_, _, _)
UnirPalabras(s, i, hay) ==
    IF i > Len(s) THEN <<>>
    ELSE IF s[i] \in ALNUM
         THEN (IF hay /\ s[i - 1] \notin ALNUM
               THEN <<"_", s[i]>> ELSE <<s[i]>>)
              \o UnirPalabras(s, i + 1, TRUE)
         ELSE UnirPalabras(s, i + 1, hay)
Slug(texto) == UnirPalabras(lower(nfkd_ascii(texto)), 1, FALSE)

\* C7: a 'Cupos' column whose category is truthy and matches no table entry is
\* detected with the field 'M_' followed by the category's slug; 'Nueva
\* Categoria XYZ' (accented i) gives M_nueva_categoria_xyz.
C7_GenericField ==
    RecienDetectadas =>
        \A i \in IndicesCupos :
            LET categoria == celda(fila_categorias, i)
            IN (Truthy(categoria) /\ EntradasQueCalzan(py_str(categoria)) = {}) =>
                 \E j \in 1..Len(columnas_cupos) :
                    /\ columnas_cupos[j].indice = i
                    /\ columnas_cupos[j].nombre = <<"M","_">> \o Slug(py_str(categoria))
                    /\ categoria = StrCell(CAT_NUEVA) =>
                         columnas_cupos[j].nombre =
                            <<"M","_","n","u","e","v","a","_","c","a","t","e","g","o","r","i","a","_","x","y","z">>

\* C7 witness: the category 'Nueva Categoria - XYZ', with a run of three
\* characters outside [a-z0-9], got a synthesized field.
C7_Witness ==
    /\ RecienDetectadas
    /\ \E j \in 1..Len(columnas_cupos) :
        /\ columnas_cupos[j].categoria_original = StrCell(CAT_NUEVA_GUION)
        /\ EntradasQueCalzan(CAT_NUEVA_GUION) = {}
        /\ columnas_cupos[j].nombre # NoCampo

\* needle occurs in hay, letters compared without regard to case
ContieneSinCaja(needle, hay) ==
    \E i \in 0..(Len(hay) - Len(needle)) :
        \A j \in 1..Len(needle) : lower_char(hay[i + j]) = lower_char(needle[j])

\* C8: on a sheet whose name contains 'REGIONAL' in any case, every record has
\* COD_CENTRO = None and CENTRO = None.
C8_RegionalHasNoCentro ==
    ContieneSinCaja(K_REGIONAL, sheet_name) =>
        \A k \in 1..Len(resultados) :
            /\ resultados[k][K_COD_CENTRO] = None
            /\ resultados[k][K_CENTRO] = None

\* C8 witness: a record of the sheet '4. Formacion x Regional' built from a row
\* whose columns 2 and 3 hold values.
C8_Witness ==
    /\ sheet_name = HOJA_REGIONAL_MIN
    /\ \E k \in 1..Len(resultados) :
        /\ Len(ws[origen[k]]) >= 4
        /\ ws[origen[k]][3] # None
        /\ ws[origen[k]][4] # None

\* cell number n (1-based) of a row, None when the row is shorter
CeldaN(row, n) == IF n <= Len(row) THEN row[n] ELSE None

\* C9: every record has PERIODO = '2025', COD_REGIONAL and REGIONAL equal to
\* the first and second cell of its row, and on a sheet whose name does not
\* contain 'REGIONAL' COD_CENTRO and CENTRO equal to the third and fourth cell
\* (None when the row is too short).
C9_IdentificationPassThrough ==
    \A k \in 1..Len(resultados) :
        LET row == ws[origen[k]]
        IN /\ resultados[k][K_PERIODO] = StrCell(<<"2","0","2","5">>)
           /\ resultados[k][K_COD_REGIONAL] = CeldaN(row, 1)
           /\ resultados[k][K_REGIONAL] = CeldaN(row, 2)
           /\ ~ContieneSinCaja(K_REGIONAL, sheet_name) =>
                /\ resultados[k][K_COD_CENTRO] = CeldaN(row, 3)
                /\ resultados[k][K_CENTRO] = CeldaN(row, 4)

\* C9 witness: on the CTROS sheet one record kept the centre code 9101 and
\* another came from a row of two cells.
C9_Witness ==
    /\ sheet_name = HOJA_CTROS
    /\ \E k \in 1..Len(resultados) : resultados[k][K_COD_CENTRO] = IntCell(9101)
    /\ \E k \in 1..Len(resultados) :
        /\ Len(ws[origen[k]]) = 2
        /\ resultados[k][K_COD_CENTRO] = None

\* a null or empty cell
Vacia(c) == c = None \/ c = StrCell(<<>>)

\* C10 as stated: a data row is left out exactly when all its cells are empty
\* or its COD_REGIONAL and COD_CENTRO are both null or empty; the other rows
\* give one record each, in row order.
C10_Original ==
    pc = "done" =>
        LET excluida(r) ==
                \/ \A i \in 1..Len(ws[r]) : Vacia(ws[r][i])
                \/ /\ Vacia(CeldaN(ws[r], 1))
                   /\ (is_regional \/ Vacia(CeldaN(ws[r], 3)))
        IN /\ Range(origen) = {r \in (header_row_num + 1)..Len(ws) : ~excluida(r)}
           /\ \A k \in 1..(Len(origen) - 1) : origen[k] < origen[k + 1]

\* the metric cell a field code takes its value from: the cell of the last
\* detected column with that code (1-based cell number)
UltimaColumna(f) ==
    CHOOSE j \in 1..Len(columnas_cupos) :
        /\ columnas_cupos[j].nombre = f
        /\ \A i \in 1..Len(columnas_cupos) : columnas_cupos[i].nombre = f => i <= j
EsNumero(c) == c.t \in {"int", "float", "bool"}
\* a data row with a truthy first code, or third code on a centre sheet
FilaConCodigo(r) ==
    \/ Truthy(CeldaN(ws[r], 1))
    \/ (~is_regional /\ Truthy(CeldaN(ws[r], 3)))

\* C11: every metric field of every record is a number: the number of its
\* cell when the cell is numeric, 0 when the cell is text, null or beyond
\* the end of the row; the data loop raises nothing, and at the end every
\* row with a code has its record whatever its metric cells hold.
C11_MetricsAreNumbers ==
    /\ pc \in {"rows", "done"} => raised = "none"
    /\ \A k \in 1..Len(resultados) : \A f \in NombresDetectados :
        LET c == CeldaN(ws[origen[k]], columnas_cupos[UltimaColumna(f)].indice + 1)
        IN /\ resultados[k][f].t \in {"int", "float"}
           /\ resultados[k][f].v = (IF EsNumero(c) THEN c.v ELSE 0)
    /\ pc = "done" =>
        \A r \in (header_row_num + 1)..Len(ws) : FilaConCodigo(r) => r \in Range(origen)

\* C11 witness: the call returned two records, the first from a row whose
\* metric cell is the text 'N/A' (stored as 0), the second with the metric
\* value 100 of its row; another reachable case is the row of two cells.
C11_Witness ==
    /\ pc = "done"
    /\ Len(resultados) = 2
    /\ Len(columnas_cupos) = 2
    /\ CeldaN(ws[origen[1]], 5) = StrCell(T_NA)
    /\ resultados[1][columnas_cupos[1].nombre].v = 0
    /\ CeldaN(ws[origen[2]], 5) = IntCell(100)
    /\ resultados[2][columnas_cupos[1].nombre] = FloatCell(100)

\* C12: a call with a sheet name that is not in the workbook ends with the
\* ValueError of the sheet check, returns nothing, builds no record, closes
\* the workbook and never starts the header scan.
C12_AbsentSheetFails ==
    sheet_name \notin Range(sheetnames) =>
        /\ pc \in {"call", "failed"}
        /\ pc = "failed" => raised = "ValueError: hoja no encontrada"
        /\ returned = NoResult
        /\ resultados = <<>>
        /\ row_num = 0
        /\ header_row_num = 0
        /\ ~wb_open

\* C12 witness: the call for a sheet absent from a workbook that has another
\* sheet has failed.
C12_Witness ==
    /\ pc = "failed"
    /\ sheet_name \notin Range(sheetnames)
    /\ Len(sheetnames) >= 1
    /\ raised = "ValueError: hoja no encontrada"

\* the name of the blank header cell at 0-based index i
NombreColumna(i) == COLUMN_ \o decimal(i)
\* the records of the worked example
datos_ejemplo ==
    <<(T_A :> IntCell(1)) @@ (T_COLUMN_1 :> StrCell(T_X)) @@ (T_COLUMN_2 :> None)>>

\* C13 as stated: the field names are the trimmed texts of the cells of the
\* first row, a blank cell (null or empty) at index i being named column_<i>;
\* first row ["A", "", None] with row [1, "x", None] gives the one record
\* {"A": 1, "column_1": "x", "column_2": None}.
C13_Original ==
    /\ (xpc \in {"rows", "done"} /\ rows # <<>>) =>
        /\ Len(headers) = Len(rows[1])
        /\ \A i \in 1..Len(headers) :
            headers[i] = (IF Vacia(rows[1][i]) THEN NombreColumna(i - 1)
                          ELSE strip(py_str(rows[1][i])))
    /\ (xpc = "done" /\ rows = <<fila_enc_ejemplo, fila_ejemplo>>) => data = datos_ejemplo

\* C14 as stated: every record has exactly as many fields as the first row
\* has cells.
C14_Original ==
    \A k \in 1..Len(data) : Cardinality(DOMAIN data[k]) = Len(rows[1])

\* the cells of row r under a header cell
CeldasMapeadas(r) == {i \in 1..Len(rows[r]) : i <= Len(rows[1])}
FilaNula(r) == \A i \in CeldasMapeadas(r) : rows[r][i] = None

\* C15 as stated: the rows left out are exactly the rows whose cells under a
\* header cell are all null; the others give one record each, in sheet order,
\* so the records number the data rows minus the all-null rows.
C15_Original ==
    (xpc = "done" /\ rows # <<>>) =>
        /\ Range(data_origen) = {r \in 2..Len(rows) : ~FilaNula(r)}
        /\ \A k \in 1..(Len(data_origen) - 1) : data_origen[k] < data_origen[k + 1]
        /\ Len(data) = (Len(rows) - 1) - Cardinality({r \in 2..Len(rows) : FilaNula(r)})

\* the last cell of a row stored under the header text h
UltimaCelda(row, h) ==
    CHOOSE i \in 1..Len(row) :
        /\ i <= Len(headers)
        /\ headers[i] = h
        /\ \A j \in 1..Len(row) : (j <= Len(headers) /\ headers[j] = h) => j <= i
SoloEspacios(t) == \A i \in 1..Len(t) : t[i] \in WHITESPACE
\* t is texto without the whitespace at its two ends
EsRecorte(t, texto) ==
    /\ t # <<>> => (t[1] \notin WHITESPACE /\ t[Len(t)] \notin WHITESPACE)
    /\ \E a \in 0..(Len(texto) - Len(t)) :
        /\ SubSeq(texto, a + 1, a + Len(t)) = t
        /\ SoloEspacios(SubSeq(texto, 1, a))
        /\ SoloEspacios(SubSeq(texto, a + Len(t) + 1, Len(texto)))

\* C16: the value a record holds for a cell is the cell itself when the cell
\* is a number, null when it is null, and the text of the cell without the
\* whitespace at its ends when it is a text; every row is processed and the
\* call ends by returning.
C16_CellCoercion ==
    /\ \A k \in 1..Len(data) : \A h \in DOMAIN data[k] :
        LET c == rows[data_origen[k]][UltimaCelda(rows[data_origen[k]], h)]
            v == data[k][h]
        IN /\ EsNumero(c) => v = c
           /\ c = None => v = None
           /\ c.t = "str" => (v.t = "str" /\ EsRecorte(v.v, c.v))
    /\ (xpc = "done" /\ rows # <<>>) => row_i = Len(rows) + 1

\* C16 witness: the returned records hold a number, a null and the text 'x'
\* stored for the cell ' x '.
C16_Witness ==
    /\ xpc = "done"
    /\ \E k \in 1..Len(data) : \E h \in DOMAIN data[k] : EsNumero(data[k][h])
    /\ \E k \in 1..Len(data) : \E h \in DOMAIN data[k] : data[k][h] = None
    /\ \E k \in 1..Len(data) : \E h \in DOMAIN data[k] :
        /\ data[k][h] = StrCell(T_X)
        /\ rows[data_origen[k]][UltimaCelda(rows[data_origen[k]], h)] = StrCell(T_X_ESPACIOS)

\* the positions of the sheets that get_sheet_names keeps
Quedan == {i \in 1..Len(sheets) : ~exclude_sql \/ ~ContieneSinCaja(SQL, sheets[i])}

\* C17: the list returned holds the workbook's names in file order: all of
\* them when exclusion is off, and when it is on those that do not contain
\* 'SQL' in any case, each once and in the order of the workbook.
C17_SheetNames ==
    xpc \in {"read_call", "rows", "done"} =>
        /\ Len(names) = Cardinality(Quedan)
        /\ \A k \in 1..Len(names) :
            names[k] = sheets[CHOOSE i \in Quedan : Cardinality({j \in Quedan : j <= i}) = k]
        /\ ~exclude_sql => names = sheets

\* C17 witness: with exclusion on, a workbook of three sheets, one of them
\* 'sql_x', gave the two other names.
C17_Witness ==
    /\ xpc = "read_call"
    /\ exclude_sql
    /\ Len(sheets) = 3
    /\ N_SQL_MIN \in Range(sheets)
    /\ N_SQ_L \in Range(sheets)
    /\ Len(names) = 2

\* C18: is_metas_file is true of a name exactly when 'seguimiento', 'metas'
\* and 'sena' all occur in it, in any order and any case, and
\* is_ejecucion_fpi_file exactly when 'ejecucion fpi' or its accented
\* spelling occurs in it in any case.
C18_Classifiers ==
    (tpc \notin {"idle", "call"} /\ entrada # None) =>
        /\ es_metas <=> /\ ContieneSinCaja(SEGUIMIENTO, entrada.v)
                        /\ ContieneSinCaja(METAS, entrada.v)
                        /\ ContieneSinCaja(SENA, entrada.v)
        /\ es_fpi <=> \/ ContieneSinCaja(EJECUCION_FPI, entrada.v)
                      \/ ContieneSinCaja(EJECUCION_FPI_TILDE, entrada.v)

\* C18 witness: the name 'SENAMetasseguimiento' (the three words in another
\* order and case) was classified a goals file and not an execution file.
C18_Witness ==
    /\ tpc = "classified"
    /\ entrada = StrCell(P_SENA \o P_METAS \o SEGUIMIENTO)
    /\ es_metas
    /\ ~es_fpi

\* the spelling of a text without its accents
SinTildes(s) ==
    [i \in 1..Len(s) |->
        IF s[i] \in ACCENTED_SET THEN BASE[Pos(s[i], ACCENTED)]
        ELSE IF s[i] \in ACCENTED_UPPER_SET THEN BASE_UPPER[Pos(s[i], ACCENTED_UPPER)]
        ELSE s[i]]

\* C19: normalizar_texto applied to its own result gives that result again,
\* and so does normalize_collection_name; a text and its spelling without
\* accents normalize to the same text; None normalizes to the empty text.
C19_Idempotent ==
    /\ tpc \in {"renormalized", "named", "done"} => norm2 = norm1
    /\ tpc = "done" => col2 = col1
    /\ (tpc \in {"normalized", "renormalized"} /\ entrada = None) => norm1 = <<>>
    /\ (tpc \in {"normalized", "renormalized", "named", "done"} /\ entrada # None) =>
        norm1 = normalizar_texto(SinTildes(entrada.v))

\* C19 witness: both normalizers were applied twice to the accented key
\* 'Tecnologos Regular - Presencial' of the table, which neither leaves as
\* it is.
C19_Witness ==
    /\ tpc = "done"
    /\ entrada = CAT_1
    /\ SinTildes(entrada.v) # entrada.v
    /\ norm1 # entrada.v
    /\ col1 # norm1

\* the operations on the database that insert records
INSERCIONES == {"insert_many", "insert_many raised"}

C23_Original ==
    pc \in {"done", "failed"} => ~wb_open

\* upload_metas went through its two sheets and the request is over
FinMetas == hpc = "idle" /\ hojas = <<HOJA_CTROS, HOJA_REGIONAL>>
\* the entries of the report that are about a sheet
EntradasDe(nombre) ==
    {i \in DOMAIN mongodb_collections :
        "sheet_name" \in DOMAIN mongodb_collections[i]
        /\ mongodb_collections[i].sheet_name = nombre}

\* C21: when upload_metas is over, whatever happened to one sheet, the
\* response is the report of both: each sheet that did not read as empty has
\* its one entry in details, an error entry with its sheet_name when its read
\* or its write failed and otherwise a success entry, with its bucket holding
\* its records; collections_processed and errors count the two kinds.
C21_Original ==
    FinMetas =>
        /\ respuesta.status = 200
        /\ respuesta.details = mongodb_collections
        /\ \A k \in 1..2 :
            LET n == lectura(archivo, hojas[k])
            IN /\ Cardinality(EntradasDe(hojas[k])) = (IF n = 0 THEN 0 ELSE 1)
               /\ \A i \in EntradasDe(hojas[k]) :
                    /\ con_error(mongodb_collections[i]) # con_coleccion(mongodb_collections[i])
                    /\ n < 0 => con_error(mongodb_collections[i])
                    /\ con_coleccion(mongodb_collections[i]) =>
                        /\ mongodb_collections[i].collection_name = coleccion_metas(k)
                        /\ mongodb_collections[i].records_inserted = n
                        /\ Documentos(db, coleccion_metas(k)) = Registros(peticiones, hojas[k], n)
        /\ respuesta.collections_processed =
                Cardinality({i \in DOMAIN mongodb_collections :
                                con_coleccion(mongodb_collections[i])})
        /\ respuesta.errors =
                Cardinality({i \in DOMAIN mongodb_collections :
                                con_error(mongodb_collections[i])})

\* upload_file processed an execution file and the request is over
FinFpi ==
    /\ hpc = "idle"
    /\ file_id # <<>>
    /\ respuesta.status = 200
    /\ is_ejecucion_fpi_file(archivo.filename)

\* C22: when upload_file is over for an execution file whose loop over the
\* sheets was entered, every sheet with data other than the one that failed
\* (the sheet at sheet_k when the loop was left early) has its success entry,
\* the sheets after the failing one included, and a failure has its entry.
C22_Original ==
    (FinFpi /\ sheet_k >= 1) =>
        /\ \A k \in 1..Len(hojas) :
            (k # sheet_k /\ lectura(archivo, hojas[k]) > 0) =>
                \E i \in DOMAIN mongodb_collections :
                    /\ con_coleccion(mongodb_collections[i])
                    /\ mongodb_collections[i].sheet_name = hojas[k]
        /\ sheet_k <= Len(hojas) =>
                \E i \in DOMAIN mongodb_collections : con_error(mongodb_collections[i])

\* upload_file stored a file and read its sheet names
Subido ==
    /\ file_id # <<>>
    /\ EndsWith(archivo.filename, EXT_XLSB)
    /\ archivo.legible
\* the try block of upload_file was left by an exception
FalloMongo ==
    /\ is_ejecucion_fpi_file(archivo.filename)
    /\ \/ hpc = "fpi_respond"
       \/ (hpc = "idle" /\ sheet_k <= Len(hojas))

\* C24: once upload_file has stored the file and read its sheet names the file
\* is registered with those names and stays so whatever MongoDB does, and the
\* request ends with the success response that carries file_id and sheets; a
\* failure of get_database, read, delete_many or insert_many is in that
\* response as the last entry of mongodb_collections, an error entry.
C24_MongoNeverFailsUpload ==
    Subido =>
        /\ file_id \in DOMAIN uploaded_files
        /\ file_id \in DOMAIN disco
        /\ uploaded_files[file_id].sheets = hojas
        /\ hpc = "idle" =>
            /\ respuesta.status = 200
            /\ respuesta.file_id = file_id
            /\ respuesta.sheets = hojas
            /\ FalloMongo =>
                /\ "mongodb_collections" \in DOMAIN respuesta
                /\ con_error(respuesta.mongodb_collections[Len(respuesta.mongodb_collections)])

\* C24 witness: insert_many raised for the second sheet of an execution file
\* and the request ended with the success response, the file registered.
C24_Witness ==
    /\ Subido
    /\ hpc = "idle"
    /\ Len(oplog) = 4
    /\ oplog[4].op = "insert_many raised"
    /\ respuesta.status = 200
    /\ file_id \in DOMAIN uploaded_files
    /\ Len(respuesta.mongodb_collections) = 2
    /\ con_coleccion(respuesta.mongodb_collections[1])
    /\ con_error(respuesta.mongodb_collections[2])

\* C25: the file_id of an upload is new: the step in which a request is
\* taken leaves every entry of the registry and every stored file of a
\* registered upload as it was.
C25_Original ==
    [][peticiones' = peticiones + 1 =>
        \A id \in DOMAIN uploaded_files :
            /\ id \in DOMAIN uploaded_files'
            /\ uploaded_files'[id] = uploaded_files[id]
            /\ id \in DOMAIN disco => (id \in DOMAIN disco' /\ disco'[id] = disco[id])]_vars

\* a step of upload_metas after it saved its file
PasoMetas ==
    \/ hpc \in {"metas_sheet", "metas_insert"}
    \/ hpc' \in {"metas_sheet", "metas_insert"}

\* C27: no step of upload_metas changes the registry; when upload_metas ends
\* after saving its file, with its response or with the error 500, the file
\* is not in the upload directory; a request refused for the extension of
\* its name leaves the directory as it was.
C27_Original ==
    [][/\ PasoMetas => uploaded_files' = uploaded_files
       /\ (PasoMetas /\ hpc' = "idle") => file_id' \notin DOMAIN disco'
       /\ (hpc = "idle" /\ hpc' = "idle" /\ peticiones' # peticiones) =>
            /\ respuesta'.status = 500 =>
                (file_id' \notin DOMAIN disco' /\ uploaded_files' = uploaded_files)
            /\ (respuesta'.status = 400 /\ ~EndsWith(archivo'.filename, EXT_XLSB)) =>
                (disco' = disco /\ uploaded_files' = uploaded_files)]_vars

\* C26: total_records is the number of records read; with an offset and a
\* limit that are not negative the data returned is the list without its
\* first offset records, cut after limit records; and whenever a limit is
\* given no more than limit records are returned.
C26_Original ==
    ppc = "done" =>
        /\ total = Len(extraidos)
        /\ (offset >= 0 /\ limit = None) => pagina = SubSeq(extraidos, offset + 1, Len(extraidos))
        /\ (offset >= 0 /\ limit # None /\ limit.v >= 0) =>
            pagina = SubSeq(extraidos, offset + 1, Menor(offset + limit.v, Len(extraidos)))
        /\ limit # None => Len(pagina) <= limit.v

\* the request answered last is one to the endpoint e
PedidoA(e) == DOMAIN pedido # {} /\ pedido.endpoint = e
\* the name has 'SQL' in it, whatever the case
EsSql(nombre) == Contains(SQL, upper(nombre))
\* the registry lists no SQL sheet, and what the read endpoints answered last
\* comes from the sheets the registry lists
RegistroSinSql ==
    /\ \A id \in DOMAIN uploaded_files :
        \A nombre \in Range(uploaded_files[id].sheets) : ~EsSql(nombre)
    /\ \A e \in {"get_sheets", "get_sheet_data", "export_all_sheets"} :
        (PedidoA(e) /\ pedido.file_id \notin DOMAIN uploaded_files)
            => respuesta.status = 404
    /\ (PedidoA("get_sheets") /\ respuesta.status = 200)
            => respuesta.sheets = uploaded_files[pedido.file_id].sheets
    /\ (PedidoA("get_sheet_data") /\ respuesta.status = 200)
            => /\ pedido.sheet_name \in Range(uploaded_files[pedido.file_id].sheets)
               /\ \A i \in 1..Len(respuesta.data) :
                    /\ respuesta.data[i].hoja = pedido.sheet_name
                    /\ ~EsSql(respuesta.data[i].hoja)
    /\ (PedidoA("export_all_sheets") /\ respuesta.status = 200)
            => \A k \in 1..Len(respuesta.exported_files) :
                respuesta.exported_files[k].sheet_name
                    = uploaded_files[pedido.file_id].sheets[k]
    /\ \A n \in DOMAIN salida :
        /\ ~EsSql(salida[n].sheet_name)
        /\ \A i \in 1..Len(salida[n].data) : ~EsSql(salida[n].data[i].hoja)
\* an upload_file request for a file whose sheet names cannot be read
SubeIlegible ==
    /\ peticiones' = peticiones + 1
    /\ pedido' = <<>>
    /\ archivo' \in ArchivosUpload
    /\ EndsWith(archivo'.filename, EXT_XLSB)
    /\ ~archivo'.legible
\* a delete_file request for a file_id the registry does not have
BorraDesconocido ==
    /\ peticiones' = peticiones + 1
    /\ DOMAIN pedido' # {}
    /\ pedido'.endpoint = "delete_file"
    /\ pedido'.file_id \notin DOMAIN uploaded_files

\* C28: the registry never lists a sheet with 'SQL' in its name; get_sheets,
\* get_sheet_data and export_all_sheets answer 404 for a file_id that is not
\* registered and read only the sheets of the registry's list, so no record of
\* an SQL sheet is returned or exported; an upload whose sheet names cannot be
\* read leaves its file removed and the registry as it was; delete_file of an
\* unknown id answers 404 and leaves the registry as it was
C28_RegistryHidesSql ==
    /\ []RegistroSinSql
    /\ [][/\ SubeIlegible =>
                /\ uploaded_files' = uploaded_files
                /\ file_id' \notin DOMAIN disco'
                /\ respuesta'.status = 400
          /\ BorraDesconocido =>
                /\ uploaded_files' = uploaded_files
                /\ respuesta'.status = 404]_vars
\* a file with an SQL sheet is registered without it, and get_sheet_data of
\* that sheet was answered 404
C28_Witness ==
    /\ PedidoA("get_sheet_data")
    /\ pedido.file_id \in DOMAIN uploaded_files
    /\ pedido.file_id \in DOMAIN disco
    /\ \E k \in 1..Len(disco[pedido.file_id].hojas) :
        /\ disco[pedido.file_id].hojas[k].nombre = pedido.sheet_name
        /\ disco[pedido.file_id].hojas[k].n > 0
    /\ EsSql(pedido.sheet_name)
    /\ uploaded_files[pedido.file_id].sheets # <<>>
    /\ respuesta.status = 404

====
